---- MODULE Spec2Model ----
(***************************************************************************)
(* Trade-replication engine of PacificaTrading.                            *)
(*                                                                         *)
(*   RestSpec  the rate-limited dispatch queue of PacificaRestClient       *)
(*             (src/src/api/rest-client.ts)                                *)
(*   FeedSpec  the feed session of PacificaWebSocketClient                 *)
(*             (src/unnamed/part_001) with the subscription reconciliation *)
(*             of the server (src/src/utils/validation.ts)                 *)
(*   ReplSpec  the per-relationship replication pipeline replicateToUser   *)
(*             (src/src/utils/validation.ts)                               *)
(*                                                                         *)
(* Durations are in milliseconds as in the source; one time unit of the    *)
(* specification text is 1000 ms.  Timers are modelled by their duration   *)
(* and a firing action, not by a clock.                                    *)
(***************************************************************************)
EXTENDS Integers, Sequences, FiniteSets, TLC

(***************************************************************************)
(* Bounds of the model.                                                    *)
(***************************************************************************)
\* request objects alive at a time in one client (identities 1..MaxReq)
MaxReq == 2
\* reconciliation passes (updateMasterSubscriptions calls) suspended at a time
MaxPasses == 2
\* largest leverage cap among the sample relationships (the source allows 1..50)
MaxLeverage == 2
\* open positions a copier account holds when its positions are read
MaxPositions == 1
\* Fills handed to replicateTrade in one run of the fan-out
MaxFills == 2
\* replicateTrade calls of one master that are running at a time
MaxLive == 2
\* dispatches counted in one 60000 ms window of a copier account
MaxWindow == 91
\* largest sample amount of the rounding model, in hundredths
MaxHundredths == 64
\* records in the data array of one inbound frame
MaxRecords == 3
\* rows of the copy_relationships table (ids 1..MaxRels)
MaxRels == 2
\* requests waiting in the queue of the client whose operations are called
MaxQueued == 2
MaxLookups == 2
MaxKeys == 3
MaxClients == 2

(***************************************************************************)
(* Program constants.                                                      *)
(***************************************************************************)
\* rest-client.ts:42  private maxRequestsPerMinute = 90
maxRequestsPerMinute == 90
\* rest-client.ts:119 setTimeout(resolve, 1000) before the 429 retry
RetryDelayMs == 1000
\* rest-client.ts:117 request.retryCount < 1
MaxRetryCount == 1
\* rest-client.ts:143 setTimeout(resolve, 100) between polls
PollDelayMs == 100
\* part_001:33  private maxReconnectAttempts = 10
maxReconnectAttempts == 10
\* part_001:34  private baseReconnectDelay = 1000
baseReconnectDelay == 1000

VARIABLES
    \* ---- PacificaRestClient (one instance) ----
    requestQueue,       \* rest-client.ts:40, sequence of [id, retryCount]
    requestsPerMinute,  \* rest-client.ts:41
    loop,               \* position of processQueue: "check", "fetch", "retryWait", "sleep"
    current,            \* the request shifted off the queue (NoReq when none)
    timerMs,            \* duration of the timeout processQueue is awaiting (0: none)
    future,             \* id -> state of the promise returned by queueRequest
    dispatches,         \* id -> how many times the request was handed to fetch
    waited,             \* id -> duration awaited before the request was put back
    windowDispatches    \* requests handed to fetch since the last counter reset

restVars == <<requestQueue, requestsPerMinute, loop, current, timerMs,
              future, dispatches, waited, windowDispatches>>

VARIABLES
    \* ---- PacificaWebSocketClient ----
    wsState,            \* the socket this.ws: "none", "connecting", "open", "closed"
    reconnectAttempts,  \* part_001:32
    shouldReconnect,    \* part_001:36
    reconnectTimer,     \* delay of the pending setTimeout of reconnect() (0: none)
    pingTimers,         \* heartbeat intervals that are running
    maxAttemptsError,   \* 'Max reconnect attempts reached' was emitted
    delays,             \* the delays scheduled since the last successful open
    \* ---- server: subscription reconciliation ----
    activeMasters,      \* distinct master wallets of the active relationships (store)
    activeSubscriptions,\* validation.ts:794
    passes,             \* updateMasterSubscriptions calls suspended on findAll
    sessionSubs,        \* wallets subscribed (and not unsubscribed) on the current socket
    replayed,           \* the pass started by this socket's 'connected' event has ended
    openedAfterFailure, \* the last socket opened after a reconnect attempt had failed
    lastPing,           \* the last tick of the heartbeat interval: "never", "sent", "skipped"
    lastFill,           \* the last 'trade' event: "never", "live", "afterFailure"
    lastCalls           \* the subscribe / unsubscribe calls of the last pass that made
                        \* any: "none", "written", "dropped"

feedVars == <<wsState, reconnectAttempts, shouldReconnect, reconnectTimer, pingTimers,
              maxAttemptsError, delays, activeMasters, activeSubscriptions, passes,
              sessionSubs, replayed,
              openedAfterFailure, lastPing, lastFill, lastCalls>>

VARIABLES
    \* ---- replicateToUser, one call (one relationship, one Fill) ----
    rpc,                \* position: "idle", "balance1", "market", "balance2",
                        \*           "positions", "order", "done"
    rel,                \* the CopyRelationship row
    trade,              \* the Fill
    copierAmount,       \* validation.ts:896
    baseAmount,         \* copierAmount as the switch on sizing_method leaves it (line 926)
    lotSize,            \* validation.ts:941
    sizingBalance,      \* validation.ts:918, the balance used by balance_percent
    available,          \* validation.ts:953
    positionsResp,      \* validation.ts:1009, what getPositions returned
    order,              \* the parameters given to createMarketOrder (NoOrder: none)
    outcome,            \* why the call ended
    snapshotReads,      \* getAccountInfo requests enqueued by this call
    marketInfoCache     \* validation.ts:797

replVars == <<rpc, rel, trade, copierAmount, baseAmount, lotSize, sizingBalance,
              available, positionsResp, order, outcome, snapshotReads, marketInfoCache>>

VARIABLES
    \* ---- replicateTrade: one Fill fanned out to its relationships; the REST client
    \*      of the variables above is publicRestClient (validation.ts:793) ----
    fanPc,              \* position of replicateTrade: "idle", "prime", "query", "fanout"
    fills,              \* Fills handed to replicateTrade so far
    calls,              \* copier -> the replicateToUser call of its relationship
    reqOf,              \* request identity -> the copier whose positions read it is
    callRejected,       \* copiers whose replicateToUser promise was rejected
    tradeRejected       \* the promise of replicateTrade was rejected

fanVars == <<fanPc, fills, calls, reqOf, callRejected, tradeRejected>>

VARIABLES
    \* ---- the Fills of one master replicated to one copier: every Fill starts a
    \*      replicateTrade call, whose replicateToUser call makes a REST client ----
    pipeline,           \* the calls that have not ended, in the order of their Fills
    copierDispatches,   \* requests handed to fetch for the copier since the window began
    inverted            \* an order was dispatched after the order of a later Fill

copVars == <<pipeline, copierDispatches, inverted>>

VARIABLES
    \* ---- the two roundings of replicateToUser on binary64 numbers ----
    qpc,                \* position: "idle", "rounded" (line 945), "rounded2" (line 980)
    qx,                 \* copierAmount before the first rounding
    qlot,               \* lotSize (line 941)
    q1,                 \* copierAmount after line 945
    q2                  \* copierAmount after line 980

quantVars == <<qpc, qx, qlot, q1, q2>>

VARIABLES
    \* ---- the message handler of PacificaWebSocketClient ----
    frame,              \* the last inbound frame, as JSON.parse reads it
    emitted,            \* the 'trade' events emitted while handling it, in order
    errorEvents         \* the 'error' events emitted while handling it

msgVars == <<frame, emitted, errorEvents>>

VARIABLES
    \* ---- the approval workflow and the relationships it gates ----
    traders,            \* the traders table: wallet -> "none" | "pending" | "approved"
    relationships,      \* the copy_relationships table: id -> NoRow or a row
    submitted           \* orders submitted by replicateToUser, each with whether the
                        \* copier's wallet had an approved trader row at that moment

apprVars == <<traders, relationships, submitted>>

VARIABLES
    \* ---- the exposed operations of one PacificaRestClient ----
    opsPc,              \* "new" before the constructor has run, then "ready"
    keys,               \* which of this.publicKey / this.privateKey are set
    opsQueue,           \* this.requestQueue: the requests with their operation
    lastCall            \* the last operation called and what the call gave back

opsVars == <<opsPc, keys, opsQueue, lastCall>>

VARIABLES
    \* ---- the sizing fields of one stored relationship ----
    row,                \* the stored row: NoSizing or its sizing_method and sizing_value
    rowBefore,          \* the stored row before the last request
    status              \* HTTP status of the last request (0 before the first)

sizVars == <<row, rowBefore, status>>

VARIABLES
    \* ---- getMarketInfo calls that overlap (validation.ts:799) ----
    lookups,            \* call -> its position ("idle", "fetch", "done"), its symbol and
                        \*         the market it returns (Zero: null)
    listed              \* symbol -> the lot size GET /info lists for it now

lookVars == <<lookups, listed>>

VARIABLES
    \* ---- replicateTrade: the relationships one Fill is replicated to ----
    copyRelationships,  \* the copy_relationships table: id -> NoMasterRow or a row
    loadPc,             \* position of replicateTrade: "idle", "prime", "query", "fanout"
    trader,             \* trade.trader of the Fill (validation.ts:1165)
    loaded,             \* ids of the rows findAll returned (line 1062)
    tableAtLoad,        \* the table as findAll read it
    pendingCalls,       \* ids whose replicateToUser call has not ended
    clientCalls         \* calls made on execution clients for the Fill: [rel, op]

loadVars == <<copyRelationships, loadPc, trader, loaded, tableAtLoad, pendingCalls,
              clientCalls>>

VARIABLES
    \* ---- sign(): two messages and the text each is signed as ----
    signPc,             \* "idle", or "signed" once both messages went through sign()
    messageA,           \* a message, as the object the caller built
    messageB,           \* a message with the keys of messageA
    compactA,           \* JSON.stringify(sortKeys(messageA)), rest-client.ts:86
    compactB            \* JSON.stringify(sortKeys(messageB))

canonVars == <<signPc, messageA, messageB, compactA, compactB>>

VARIABLES
    \* ---- the server process ----
    exited              \* process.exit was called (validation.ts:1217)

procVars == <<exited>>

VARIABLES
    \* ---- the PacificaRestClient objects that replicateToUser calls construct ----
    userClients         \* the clients constructed so far, in order: the position of the
                        \* call that made it, of its processQueue loop, its counter and
                        \* whether its setInterval timer is set

cliVars == <<userClients>>

vars == <<restVars, feedVars, replVars, fanVars, copVars, quantVars, msgVars, apprVars, opsVars, sizVars, lookVars, loadVars, canonVars, procVars, cliVars>>

nonRestVars  == <<feedVars, replVars, fanVars, copVars, quantVars, msgVars, apprVars, opsVars, sizVars, lookVars, loadVars, canonVars, procVars, cliVars>>
nonFeedVars  == <<restVars, replVars, fanVars, copVars, quantVars, msgVars, apprVars, opsVars, sizVars, lookVars, loadVars, canonVars, procVars, cliVars>>
nonReplVars  == <<restVars, feedVars, fanVars, copVars, quantVars, msgVars, apprVars, opsVars, sizVars, lookVars, loadVars, canonVars, procVars, cliVars>>
nonFanVars   == <<feedVars, replVars, copVars, quantVars, msgVars, apprVars, opsVars, sizVars, lookVars, loadVars, canonVars, procVars, cliVars>>
nonCopVars   == <<restVars, feedVars, replVars, fanVars, quantVars, msgVars, apprVars, opsVars, sizVars, lookVars, loadVars, canonVars, procVars, cliVars>>
nonQuantVars == <<restVars, feedVars, replVars, fanVars, copVars, msgVars, apprVars, opsVars, sizVars, lookVars, loadVars, canonVars, procVars, cliVars>>
nonMsgVars == <<restVars, feedVars, replVars, fanVars, copVars, quantVars, apprVars, opsVars, sizVars, lookVars, loadVars, canonVars, procVars, cliVars>>
nonApprVars == <<restVars, feedVars, replVars, fanVars, copVars, quantVars, msgVars, opsVars, sizVars, lookVars, loadVars, canonVars, procVars, cliVars>>
nonOpsVars == <<restVars, feedVars, replVars, fanVars, copVars, quantVars, msgVars, apprVars, sizVars, lookVars, loadVars, canonVars, procVars, cliVars>>
nonSizVars == <<restVars, feedVars, replVars, fanVars, copVars, quantVars, msgVars, apprVars, opsVars, lookVars, loadVars, canonVars, procVars, cliVars>>
nonLookVars == <<restVars, feedVars, replVars, fanVars, copVars, quantVars, msgVars, apprVars, opsVars, sizVars, loadVars, canonVars, procVars, cliVars>>
nonLoadVars == <<restVars, feedVars, replVars, fanVars, copVars, quantVars, msgVars, apprVars, opsVars, sizVars, lookVars, canonVars, procVars, cliVars>>

ReqIds == 1..MaxReq
NoReq == [id |-> 0, retryCount |-> 0]
FutureStates == {"none", "pending", "resolved", "rejected429", "rejectedHttp", "rejectedError"}

(***************************************************************************)
(* Numbers.  The source computes with binary floating point; the model     *)
(* computes the same expressions exactly, on fractions n/d in lowest terms *)
(* with d > 0.  Decimal text of the feed and of the REST responses is      *)
(* carried by its value.                                                   *)
(***************************************************************************)
RECURSIVE GCD(_, _)
GCD(a, b) == IF b = 0 THEN a ELSE GCD(b, a % b)

Abs(x) == IF x < 0 THEN -x ELSE x

Rat(n, d) == LET g == GCD(Abs(n), d)
             IN  IF n = 0 THEN [n |-> 0, d |-> 1] ELSE [n |-> n \div g, d |-> d \div g]

RMul(a, b) == Rat(a.n * b.n, a.d * b.d)
RDiv(a, b) == Rat(a.n * b.d, a.d * b.n)
RAdd(a, b) == Rat(a.n * b.d + b.n * a.d, a.d * b.d)
RLeq(a, b) == a.n * b.d <= b.n * a.d
RLt(a, b)  == a.n * b.d < b.n * a.d
RMin(a, b) == IF RLeq(a, b) THEN a ELSE b
RFloor(a)  == a.n \div a.d
Zero == Rat(0, 1)

RECURSIVE Pow10(_)
Pow10(k) == IF k = 0 THEN 1 ELSE 10 * Pow10(k - 1)

RECURSIVE Pow2(_)
Pow2(n) == IF n = 0 THEN 1 ELSE 2 * Pow2(n - 1)

(***************************************************************************)
(* Decimal text: a sequence of one-character strings.                      *)
(***************************************************************************)
DigitChar(k) == <<"0", "1", "2", "3", "4", "5", "6", "7", "8", "9">>[k + 1]
DigitValue(c) == CHOOSE k \in 0..9 : DigitChar(k) = c

RECURSIVE Digits(_)
Digits(k) == IF k < 10 THEN <<DigitChar(k)>>
                       ELSE Digits(k \div 10) \o <<DigitChar(k % 10)>>

RECURSIVE PadLeft(_, _)
PadLeft(str, width) == IF Len(str) >= width THEN str
                                            ELSE PadLeft(<<"0">> \o str, width)

\* Number.prototype.toFixed(decimals) of a value >= 0: round to the nearest
\* multiple of 10^-decimals, print all decimals
toFixed(x, decimals) ==
    LET scaled == (2 * x.n * Pow10(decimals) + x.d) \div (2 * x.d)
        ip     == scaled \div Pow10(decimals)
        fp     == scaled % Pow10(decimals)
    IN  IF decimals = 0 THEN Digits(ip)
                        ELSE Digits(ip) \o <<".">> \o PadLeft(Digits(fp), decimals)

RECURSIVE TrailingZeros(_)
TrailingZeros(str) ==
    IF Len(str) > 0 /\ str[Len(str)] = "0"
       THEN 1 + TrailingZeros(SubSeq(str, 1, Len(str) - 1))
       ELSE 0

\* str.replace(/\.?0+$/, ''): drop the run of zeros that ends the text, and the
\* dot in front of that run if there is one
StripZeros(str) ==
    LET z    == TrailingZeros(str)
        keep == Len(str) - z
    IN  IF z = 0 THEN str
        ELSE IF keep > 0 /\ str[keep] = "." THEN SubSeq(str, 1, keep - 1)
        ELSE SubSeq(str, 1, keep)

RECURSIVE DigitsValue(_)
DigitsValue(str) ==
    IF Len(str) = 0 THEN 0
    ELSE 10 * DigitsValue(SubSeq(str, 1, Len(str) - 1)) + DigitValue(str[Len(str)])

\* the value the exchange reads from the decimal text of an order amount
ParseDecimal(str) ==
    LET dots == {k \in 1..Len(str) : str[k] = "."}
    IN  IF dots = {} THEN Rat(DigitsValue(str), 1)
        ELSE LET k == CHOOSE j \in dots : TRUE
             IN  Rat(DigitsValue(SubSeq(str, 1, k - 1) \o SubSeq(str, k + 1, Len(str))),
                     Pow10(Len(str) - k))

\* (lotSize.toString().split('.')[1] || '').length for a lot size that prints
\* in positional notation (>= 0.000001)
RECURSIVE LotDecimals(_)
LotDecimals(lot) == IF lot.d = 1 THEN 0 ELSE 1 + LotDecimals(Rat(lot.n * 10, lot.d))

\* Math.floor(amount / lotSize) * lotSize
Quantize(amount, lot) == RMul(Rat(RFloor(RDiv(amount, lot)), 1), lot)

\* copierAmount.toFixed(decimals).replace(/\.?0+$/, '')
FormatAmount(amount, decimals) == StripZeros(toFixed(amount, decimals))

(***************************************************************************)
(* Binary floating point.  A JavaScript number is an IEEE 754 binary64      *)
(* value: m * 2^e with a 53-bit m, every operation rounding its exact      *)
(* result to the nearest such value, ties to even.  m is carried as a      *)
(* sequence of 15-bit limbs, least significant first, without leading zero *)
(* limbs (<<>> is 0).  The values of the model are positive and in the     *)
(* normal range.                                                           *)
(***************************************************************************)
LimbBits == 15
Base == Pow2(LimbBits)
MantissaBits == 53

RECURSIVE LNorm(_)
LNorm(a) == IF a = <<>> \/ a[Len(a)] # 0 THEN a ELSE LNorm(SubSeq(a, 1, Len(a) - 1))

RECURSIVE LOfInt(_)
LOfInt(n) == IF n = 0 THEN <<>> ELSE <<n % Base>> \o LOfInt(n \div Base)

RECURSIVE BitLen(_)
BitLen(n) == IF n = 0 THEN 0 ELSE 1 + BitLen(n \div 2)

LBitLen(a) == IF a = <<>> THEN 0 ELSE (Len(a) - 1) * LimbBits + BitLen(a[Len(a)])

\* bit i of a, bit 1 being the least significant
LBit(a, i) == (a[((i - 1) \div LimbBits) + 1] \div Pow2((i - 1) % LimbBits)) % 2

RECURSIVE LLeqFrom(_, _, _)
LLeqFrom(a, b, i) == IF i = 0 THEN TRUE
                     ELSE IF a[i] # b[i] THEN a[i] < b[i]
                     ELSE LLeqFrom(a, b, i - 1)

LLeq(a, b) == IF Len(a) # Len(b) THEN Len(a) < Len(b) ELSE LLeqFrom(a, b, Len(a))

RECURSIVE LAddC(_, _, _)
LAddC(a, b, carry) ==
    IF a = <<>> /\ b = <<>> THEN (IF carry = 0 THEN <<>> ELSE <<carry>>)
    ELSE LET x == IF a = <<>> THEN 0 ELSE Head(a)
             y == IF b = <<>> THEN 0 ELSE Head(b)
             t == x + y + carry
         IN  <<t % Base>> \o LAddC(IF a = <<>> THEN a ELSE Tail(a),
                                   IF b = <<>> THEN b ELSE Tail(b), t \div Base)

LAdd(a, b) == LAddC(a, b, 0)

RECURSIVE LSubB(_, _, _)
LSubB(a, b, borrow) ==
    IF a = <<>> THEN <<>>
    ELSE LET y == IF b = <<>> THEN 0 ELSE Head(b)
             t == Head(a) - y - borrow
         IN  <<IF t < 0 THEN t + Base ELSE t>>
                \o LSubB(Tail(a), IF b = <<>> THEN b ELSE Tail(b), IF t < 0 THEN 1 ELSE 0)

\* a - b for a >= b
LSub(a, b) == LNorm(LSubB(a, b, 0))

\* a * d + carry for one limb d
RECURSIVE LMulLimb(_, _, _)
LMulLimb(a, d, carry) ==
    IF a = <<>> THEN (IF carry = 0 THEN <<>> ELSE <<carry>>)
    ELSE LET t == Head(a) * d + carry
         IN  <<t % Base>> \o LMulLimb(Tail(a), d, t \div Base)

RECURSIVE LMul(_, _)
LMul(a, b) == IF a = <<>> \/ b = <<>> THEN <<>>
              ELSE LNorm(LAdd(LMulLimb(a, Head(b), 0), <<0>> \o LMul(a, Tail(b))))

\* a * 2^k
LShl(a, k) == IF a = <<>> THEN a
              ELSE [i \in 1..(k \div LimbBits) |-> 0] \o LMulLimb(a, Pow2(k % LimbBits), 0)

\* floor(a / 2^k)
LShr(a, k) ==
    LET drop == k \div LimbBits
        r    == k % LimbBits
        b    == IF drop >= Len(a) THEN <<>> ELSE SubSeq(a, drop + 1, Len(a))
    IN  LNorm([i \in 1..Len(b) |->
                  (b[i] \div Pow2(r))
                     + (IF i < Len(b) THEN (b[i + 1] % Pow2(r)) * Pow2(LimbBits - r) ELSE 0)])

\* long division: st is the quotient and the remainder of the bits of the dividend
\* taken so far; the bits b..1 of one limb are taken next, the top one first
RECURSIVE LDivBits(_, _, _, _)
LDivBits(st, limb, q, b) ==
    IF b = 0 THEN st
    ELSE LET r2 == LMulLimb(st.r, 2, (limb \div Pow2(b - 1)) % 2)
         IN  IF LLeq(q, r2)
                THEN LDivBits([q |-> LMulLimb(st.q, 2, 1), r |-> LSub(r2, q)], limb, q, b - 1)
                ELSE LDivBits([q |-> LMulLimb(st.q, 2, 0), r |-> r2], limb, q, b - 1)

RECURSIVE LDivLimbs(_, _, _)
LDivLimbs(p, q, j) ==
    IF j > Len(p) THEN [q |-> <<>>, r |-> <<>>]
                  ELSE LDivBits(LDivLimbs(p, q, j + 1), p[j], q, LimbBits)

\* quotient and remainder of p by q
LDivMod(p, q) == LDivLimbs(p, q, 1)

FZero == [m |-> <<>>, e |-> 0]

\* the binary64 value nearest to (p / q) * 2^e0, ties to even
RoundRatio(p, q, e0) ==
    IF p = <<>> THEN FZero
    ELSE LET s    == (MantissaBits + 2) - (LBitLen(p) - LBitLen(q))
             num  == IF s > 0 THEN LShl(p, s) ELSE p
             den  == IF s < 0 THEN LShl(q, -s) ELSE q
             dm   == LDivMod(num, den)
             d    == LBitLen(dm.q) - MantissaBits
             kept == LShr(dm.q, d)
             low  == dm.q[1] % Pow2(d)
             half == Pow2(d - 1)
             up   == low > half \/ (low = half /\ (dm.r # <<>> \/ kept[1] % 2 = 1))
             m1   == IF up THEN LAdd(kept, <<1>>) ELSE kept
         IN  IF LBitLen(m1) > MantissaBits
                THEN [m |-> LShr(m1, 1), e |-> e0 - s + d + 1]
                ELSE [m |-> m1, e |-> e0 - s + d]

\* parseFloat of decimal text
parseFloat(str) == LET r == ParseDecimal(str)
                   IN  RoundRatio(LOfInt(r.n), LOfInt(r.d), 0)

\* x / y
FDiv(x, y) == RoundRatio(x.m, y.m, x.e - y.e)

\* Math.floor(x), an integer below 2^53, as limbs
FFloor(x) == IF x.e >= 0 THEN LShl(x.m, x.e) ELSE LShr(x.m, -x.e)

\* k * y for an integer k below 2^53
FMulInt(k, y) == RoundRatio(LMul(k, y.m), <<1>>, y.e)

\* x <= y for values >= 0
FLeq(x, y) == IF x.m = <<>> THEN TRUE
              ELSE IF y.m = <<>> THEN FALSE
              ELSE x.e < y.e \/ (x.e = y.e /\ LLeq(x.m, y.m))

\* Math.floor(copierAmount / lotSize) * lotSize as the machine computes it
Quantize64(x, lot) == FMulInt(FFloor(FDiv(x, lot)), lot)

(***************************************************************************)
(* PacificaRestClient                                                      *)
(***************************************************************************)
RestInit ==
    /\ requestQueue = <<>>
    /\ requestsPerMinute = 0
    /\ loop = "check"
    /\ current = NoReq
    /\ timerMs = 0
    /\ future = [i \in ReqIds |-> "none"]
    /\ dispatches = [i \in ReqIds |-> 0]
    /\ waited = [i \in ReqIds |-> 0]
    /\ windowDispatches = 0

InFlight(i) == \/ \E k \in 1..Len(requestQueue) : requestQueue[k].id = i
               \/ current.id = i

\* queueRequest: this.requestQueue.push({..., retryCount: 0}) inside the executor of
\* the promise it returns
Push(i) ==
    /\ requestQueue' = Append(requestQueue, [id |-> i, retryCount |-> 0])
    /\ future' = [future EXCEPT ![i] = "pending"]
    /\ dispatches' = [dispatches EXCEPT ![i] = 0]
    /\ waited' = [waited EXCEPT ![i] = 0]
    /\ UNCHANGED <<requestsPerMinute, loop, current, timerMs, windowDispatches>>

\* queueRequest: push a new request object with retryCount 0; the promise is pending.
\* The new object takes the least identity that no unsettled request holds.
queueRequest(i) ==
    /\ ~InFlight(i)
    /\ future[i] # "pending"
    /\ \A j \in ReqIds : j < i => future[j] = "pending"
    /\ Push(i)
    /\ UNCHANGED nonRestVars

\* the interval fires and leaves the counters as they are
RateTick_NoReset == UNCHANGED vars

\* constructor: setInterval(() => { this.requestsPerMinute = 0 }, 60000)
RateTick ==
    /\ requestsPerMinute' = 0
    /\ windowDispatches' = 0
    /\ UNCHANGED <<requestQueue, loop, current, timerMs, future, dispatches, waited>>
    /\ UNCHANGED nonRestVars

CanDispatch_OffByOne ==
    Len(requestQueue) > 0 /\ requestsPerMinute <= maxRequestsPerMinute

\* processQueue: the condition of the if at the top of the loop
CanDispatch ==
    Len(requestQueue) > 0 /\ requestsPerMinute < maxRequestsPerMinute

\* processQueue: shift, count, hand to fetch
Dispatch ==
    /\ loop = "check"
    /\ CanDispatch
    /\ current' = Head(requestQueue)
    /\ requestQueue' = Tail(requestQueue)
    /\ requestsPerMinute' = requestsPerMinute + 1
    /\ windowDispatches' = windowDispatches + 1
    /\ dispatches' = [dispatches EXCEPT ![Head(requestQueue).id] = @ + 1]
    /\ loop' = "fetch"
    /\ UNCHANGED <<timerMs, future, waited>>
    /\ UNCHANGED nonRestVars

\* processQueue: nothing to do (empty queue or budget used up), wait 100 ms
Idle ==
    /\ loop = "check"
    /\ ~CanDispatch
    /\ loop' = "sleep"
    /\ timerMs' = PollDelayMs
    /\ UNCHANGED <<requestQueue, requestsPerMinute, current, future, dispatches,
                   waited, windowDispatches>>
    /\ UNCHANGED nonRestVars

\* processQueue: the 100 ms timeout fires
Wake ==
    /\ loop = "sleep"
    /\ loop' = "check"
    /\ timerMs' = 0
    /\ UNCHANGED <<requestQueue, requestsPerMinute, current, future, dispatches,
                   waited, windowDispatches>>
    /\ UNCHANGED nonRestVars

\* the request is resolved and also put back at the front of the queue
FetchOk_Requeue ==
    /\ loop = "fetch"
    /\ future' = [future EXCEPT ![current.id] = "resolved"]
    /\ requestQueue' = <<current>> \o requestQueue
    /\ current' = NoReq
    /\ loop' = "sleep"
    /\ timerMs' = PollDelayMs
    /\ UNCHANGED <<requestsPerMinute, dispatches, waited, windowDispatches>>
    /\ UNCHANGED nonRestVars

\* processQueue: response.ok, request.resolve(data), then the 100 ms wait
FetchOk ==
    /\ loop = "fetch"
    /\ future' = [future EXCEPT ![current.id] = "resolved"]
    /\ current' = NoReq
    /\ loop' = "sleep"
    /\ timerMs' = PollDelayMs
    /\ UNCHANGED <<requestQueue, requestsPerMinute, dispatches, waited, windowDispatches>>
    /\ UNCHANGED nonRestVars

MayRetry_Always(req) == TRUE

\* processQueue: request.retryCount < 1
MayRetry(req) == req.retryCount < MaxRetryCount

\* processQueue: status 429 and a retry is left: start the 1000 ms wait
Fetch429Retry ==
    /\ loop = "fetch"
    /\ MayRetry(current)
    /\ loop' = "retryWait"
    /\ timerMs' = RetryDelayMs
    /\ UNCHANGED <<requestQueue, requestsPerMinute, current, future, dispatches,
                   waited, windowDispatches>>
    /\ UNCHANGED nonRestVars

\* the retried request is pushed at the back of the queue
RetryRequeue_AtBack ==
    /\ loop = "retryWait"
    /\ requestQueue' = Append(requestQueue,
                              [id |-> current.id, retryCount |-> current.retryCount + 1])
    /\ waited' = [waited EXCEPT ![current.id] = timerMs]
    /\ current' = NoReq
    /\ timerMs' = 0
    /\ loop' = "check"
    /\ UNCHANGED <<requestsPerMinute, future, dispatches, windowDispatches>>
    /\ UNCHANGED nonRestVars

\* processQueue: after the wait, retryCount++, unshift, continue
RetryRequeue ==
    /\ loop = "retryWait"
    /\ requestQueue' = <<[id |-> current.id, retryCount |-> current.retryCount + 1]>>
                          \o requestQueue
    /\ waited' = [waited EXCEPT ![current.id] = timerMs]
    /\ current' = NoReq
    /\ timerMs' = 0
    /\ loop' = "check"
    /\ UNCHANGED <<requestsPerMinute, future, dispatches, windowDispatches>>
    /\ UNCHANGED nonRestVars

\* processQueue: status 429 with no retry left: reject, continue
Fetch429Reject ==
    /\ loop = "fetch"
    /\ ~MayRetry(current)
    /\ future' = [future EXCEPT ![current.id] = "rejected429"]
    /\ current' = NoReq
    /\ loop' = "check"
    /\ UNCHANGED <<requestQueue, requestsPerMinute, timerMs, dispatches, waited,
                   windowDispatches>>
    /\ UNCHANGED nonRestVars

\* the request is rejected and also put back at the front of the queue
FetchHttpError_Requeue ==
    /\ loop = "fetch"
    /\ future' = [future EXCEPT ![current.id] = "rejectedHttp"]
    /\ requestQueue' = <<current>> \o requestQueue
    /\ current' = NoReq
    /\ loop' = "check"
    /\ UNCHANGED <<requestsPerMinute, timerMs, dispatches, waited, windowDispatches>>
    /\ UNCHANGED nonRestVars

\* processQueue: !response.ok, reject with status and body, continue
FetchHttpError ==
    /\ loop = "fetch"
    /\ future' = [future EXCEPT ![current.id] = "rejectedHttp"]
    /\ current' = NoReq
    /\ loop' = "check"
    /\ UNCHANGED <<requestQueue, requestsPerMinute, timerMs, dispatches, waited,
                   windowDispatches>>
    /\ UNCHANGED nonRestVars

\* processQueue: fetch or response.json() throws: catch, reject, then the 100 ms wait
FetchThrows ==
    /\ loop = "fetch"
    /\ future' = [future EXCEPT ![current.id] = "rejectedError"]
    /\ current' = NoReq
    /\ loop' = "sleep"
    /\ timerMs' = PollDelayMs
    /\ UNCHANGED <<requestQueue, requestsPerMinute, dispatches, waited, windowDispatches>>
    /\ UNCHANGED nonRestVars

RestNext ==
    \/ \E i \in ReqIds : queueRequest(i)
    \/ RateTick
    \/ Dispatch
    \/ Idle
    \/ Wake
    \/ FetchOk
    \/ Fetch429Retry
    \/ RetryRequeue
    \/ Fetch429Reject
    \/ FetchHttpError
    \/ FetchThrows


(***************************************************************************)
(* PacificaWebSocketClient and the server's subscription reconciliation    *)
(***************************************************************************)
Wallets == {"m1", "m2"}
PassSlots == 1..MaxPasses
NoPass == [phase |-> "idle", masters |-> {}, replay |-> FALSE]

FeedInit ==
    /\ wsState = "none"
    /\ reconnectAttempts = 0
    /\ shouldReconnect = TRUE
    /\ reconnectTimer = 0
    /\ pingTimers = 0
    /\ maxAttemptsError = FALSE
    /\ delays = <<>>
    /\ activeMasters = {}
    /\ activeSubscriptions = {}
    /\ passes = [p \in PassSlots |-> NoPass]
    /\ sessionSubs = {}
    /\ replayed = FALSE
    /\ openedAfterFailure = FALSE
    /\ lastPing = "never"
    /\ lastFill = "never"
    /\ lastCalls = "none"

\* isConnected(): this.ws !== null && readyState === OPEN
isConnected == wsState = "open"

FreeSlots == {p \in PassSlots : passes[p].phase = "idle"}
FirstFree == CHOOSE p \in FreeSlots : \A q \in FreeSlots : p <= q

\* connect(): new WebSocket(url); nothing was subscribed on the new socket
NewSocket ==
    /\ wsState' = "connecting"
    /\ sessionSubs' = {}
    /\ replayed' = FALSE
    /\ passes' = [p \in PassSlots |-> [passes[p] EXCEPT !.replay = FALSE]]
    /\ openedAfterFailure' = FALSE

\* initializeClients: wsClient.connect()
Connect ==
    /\ wsState = "none"
    /\ shouldReconnect
    /\ reconnectTimer = 0
    /\ NewSocket
    /\ UNCHANGED <<reconnectAttempts, shouldReconnect, reconnectTimer, pingTimers,
                   maxAttemptsError, delays, activeMasters, activeSubscriptions>>
    /\ UNCHANGED <<lastPing, lastFill, lastCalls>>
    /\ UNCHANGED nonFeedVars

\* the 'open' handler without the reset of the attempts
OnOpen_NoReset ==
    /\ wsState = "connecting"
    /\ FreeSlots # {}
    /\ wsState' = "open"
    /\ reconnectAttempts' = reconnectAttempts
    /\ delays' = <<>>
    /\ passes' = [passes EXCEPT ![FirstFree] =
                     [phase |-> "query", masters |-> activeMasters, replay |-> TRUE]]
    /\ pingTimers' = pingTimers + 1
    /\ UNCHANGED <<shouldReconnect, reconnectTimer, maxAttemptsError, activeMasters,
                   activeSubscriptions, sessionSubs, replayed>>
    /\ openedAfterFailure' = (reconnectAttempts >= 2)
    /\ UNCHANGED <<lastPing, lastFill, lastCalls>>
    /\ UNCHANGED nonFeedVars

\* 'open' handler: reset the attempts, emit 'connected' (the server's handler calls
\* updateMasterSubscriptions, which passes its connectivity check and suspends on
\* findAll), no wallet of its own to subscribe (validation.ts:1155), start the heartbeat
OnOpen ==
    /\ wsState = "connecting"
    /\ FreeSlots # {}
    /\ wsState' = "open"
    /\ reconnectAttempts' = 0
    /\ delays' = <<>>
    /\ passes' = [passes EXCEPT ![FirstFree] =
                     [phase |-> "query", masters |-> activeMasters, replay |-> TRUE]]
    /\ pingTimers' = pingTimers + 1
    /\ UNCHANGED <<shouldReconnect, reconnectTimer, maxAttemptsError, activeMasters,
                   activeSubscriptions, sessionSubs, replayed>>
    /\ openedAfterFailure' = (reconnectAttempts >= 2)
    /\ UNCHANGED <<lastPing, lastFill, lastCalls>>
    /\ UNCHANGED nonFeedVars

ReconnectDelay_DoubleFirst(attempts) == baseReconnectDelay * Pow2(attempts + 1)

\* reconnect(): baseReconnectDelay * Math.pow(2, reconnectAttempts)
ReconnectDelay(attempts) == baseReconnectDelay * Pow2(attempts)

AttemptsLeft_OneMore(attempts) == attempts <= maxReconnectAttempts

\* reconnect(): the negation of reconnectAttempts >= maxReconnectAttempts
AttemptsLeft(attempts) == attempts < maxReconnectAttempts

\* the 'close' handler without cleanup()
OnClose_NoCleanup ==
    /\ wsState \in {"connecting", "open"}
    /\ wsState' = "closed"
    /\ pingTimers' = pingTimers
    /\ IF ~shouldReconnect
          THEN UNCHANGED <<reconnectAttempts, reconnectTimer, maxAttemptsError, delays>>
          ELSE IF AttemptsLeft(reconnectAttempts)
                  THEN /\ reconnectTimer' = ReconnectDelay(reconnectAttempts)
                       /\ reconnectAttempts' = reconnectAttempts + 1
                       /\ delays' = Append(delays, ReconnectDelay(reconnectAttempts))
                       /\ UNCHANGED maxAttemptsError
                  ELSE /\ maxAttemptsError' = TRUE
                       /\ UNCHANGED <<reconnectAttempts, reconnectTimer, delays>>
    /\ UNCHANGED <<shouldReconnect, activeMasters, activeSubscriptions, passes,
                   sessionSubs, replayed>>
    /\ UNCHANGED <<openedAfterFailure, lastPing, lastFill, lastCalls>>
    /\ UNCHANGED nonFeedVars

\* the 'close' handler whose reconnect() goes on after the terminal error
OnClose_NoReturn ==
    /\ wsState \in {"connecting", "open"}
    /\ wsState' = "closed"
    /\ pingTimers' = 0
    /\ IF ~shouldReconnect
          THEN UNCHANGED <<reconnectAttempts, reconnectTimer, maxAttemptsError, delays>>
          ELSE IF AttemptsLeft(reconnectAttempts)
                  THEN /\ reconnectTimer' = ReconnectDelay(reconnectAttempts)
                       /\ reconnectAttempts' = reconnectAttempts + 1
                       /\ delays' = Append(delays, ReconnectDelay(reconnectAttempts))
                       /\ UNCHANGED maxAttemptsError
                  ELSE /\ maxAttemptsError' = TRUE
                       /\ reconnectTimer' = ReconnectDelay(reconnectAttempts)
                       /\ UNCHANGED <<reconnectAttempts, delays>>
    /\ UNCHANGED <<shouldReconnect, activeMasters, activeSubscriptions, passes,
                   sessionSubs, replayed>>
    /\ UNCHANGED <<openedAfterFailure, lastPing, lastFill, lastCalls>>
    /\ UNCHANGED nonFeedVars

\* 'close' handler: emit 'disconnected', cleanup(), reconnect() if shouldReconnect
OnClose ==
    /\ wsState \in {"connecting", "open"}
    /\ wsState' = "closed"
    /\ pingTimers' = 0
    /\ IF ~shouldReconnect
          THEN UNCHANGED <<reconnectAttempts, reconnectTimer, maxAttemptsError, delays>>
          ELSE IF AttemptsLeft(reconnectAttempts)
                  THEN /\ reconnectTimer' = ReconnectDelay(reconnectAttempts)
                       /\ reconnectAttempts' = reconnectAttempts + 1
                       /\ delays' = Append(delays, ReconnectDelay(reconnectAttempts))
                       /\ UNCHANGED maxAttemptsError
                  ELSE /\ maxAttemptsError' = TRUE
                       /\ UNCHANGED <<reconnectAttempts, reconnectTimer, delays>>
    /\ UNCHANGED <<shouldReconnect, activeMasters, activeSubscriptions, passes,
                   sessionSubs, replayed>>
    /\ UNCHANGED <<openedAfterFailure, lastPing, lastFill, lastCalls>>
    /\ UNCHANGED nonFeedVars

\* reconnect(): the setTimeout fires and calls connect()
ReconnectTimerFires ==
    /\ reconnectTimer # 0
    /\ reconnectTimer' = 0
    /\ NewSocket
    /\ UNCHANGED <<reconnectAttempts, shouldReconnect, pingTimers, maxAttemptsError,
                   delays, activeMasters, activeSubscriptions>>
    /\ UNCHANGED <<lastPing, lastFill, lastCalls>>
    /\ UNCHANGED nonFeedVars

\* disconnect(): shouldReconnect = false, cleanup(), close and drop the socket
Disconnect ==
    /\ shouldReconnect
    /\ shouldReconnect' = FALSE
    /\ pingTimers' = 0
    /\ wsState' = "none"
    /\ UNCHANGED <<reconnectAttempts, reconnectTimer, maxAttemptsError, delays,
                   activeMasters, activeSubscriptions, passes, sessionSubs, replayed>>
    /\ UNCHANGED <<openedAfterFailure, lastPing, lastFill, lastCalls>>
    /\ UNCHANGED nonFeedVars

\* a relationship of master w is created, activated, deactivated or deleted
ChangeRelationships(w) ==
    /\ activeMasters' = IF w \in activeMasters THEN activeMasters \ {w}
                                               ELSE activeMasters \cup {w}
    /\ UNCHANGED <<wsState, reconnectAttempts, shouldReconnect, reconnectTimer,
                   pingTimers, maxAttemptsError, delays, activeSubscriptions, passes,
                   sessionSubs, replayed>>
    /\ UNCHANGED <<openedAfterFailure, lastPing, lastFill, lastCalls>>
    /\ UNCHANGED nonFeedVars

\* updateMasterSubscriptions, called by the 60 s interval or after a relationship
\* change: return when not connected, else suspend on findAll
PassStart ==
    /\ FreeSlots # {}
    /\ isConnected
    /\ passes' = [passes EXCEPT ![FirstFree] =
                     [phase |-> "query", masters |-> activeMasters, replay |-> FALSE]]
    /\ UNCHANGED <<wsState, reconnectAttempts, shouldReconnect, reconnectTimer,
                   pingTimers, maxAttemptsError, delays, activeMasters,
                   activeSubscriptions, sessionSubs, replayed>>
    /\ UNCHANGED <<openedAfterFailure, lastPing, lastFill, lastCalls>>
    /\ UNCHANGED nonFeedVars

SubscribeTargets_All(masters, subs) == masters

\* updateMasterSubscriptions: masters that get a subscribe call
SubscribeTargets(masters, subs) == masters \ subs

UnsubscribeTargets_None(masters, subs) == {}

\* updateMasterSubscriptions: masters that get an unsubscribe call
UnsubscribeTargets(masters, subs) == subs \ masters

Written_Always(ws, wallets) == wallets

\* subscribeToAccount / unsubscribeFromAccount write only to an open socket
Written(ws, wallets) == IF ws = "open" THEN wallets ELSE {}

\* updateMasterSubscriptions resumes with the result of findAll and runs both loops
PassResume(p) ==
    /\ passes[p].phase = "query"
    /\ LET masters == passes[p].masters
           subs    == SubscribeTargets(masters, activeSubscriptions)
           added   == activeSubscriptions \cup subs
           unsubs  == UnsubscribeTargets(masters, added)
       IN /\ activeSubscriptions' = added \ unsubs
          /\ sessionSubs' = (sessionSubs \cup Written(wsState, subs))
                               \ Written(wsState, unsubs)
          /\ lastCalls' = IF subs \cup unsubs = {} THEN lastCalls
                          ELSE IF Written(wsState, subs \cup unsubs) = {} THEN "dropped"
                          ELSE "written"
    /\ replayed' = (replayed \/ passes[p].replay)
    /\ passes' = [passes EXCEPT ![p] = NoPass]
    /\ UNCHANGED <<wsState, reconnectAttempts, shouldReconnect, reconnectTimer,
                   pingTimers, maxAttemptsError, delays, activeMasters>>
    /\ UNCHANGED <<openedAfterFailure, lastPing, lastFill>>
    /\ UNCHANGED nonFeedVars

\* updateMasterSubscriptions: findAll throws, the catch logs and the pass ends
PassFails(p) ==
    /\ passes[p].phase = "query"
    /\ passes' = [passes EXCEPT ![p] = NoPass]
    /\ UNCHANGED <<wsState, reconnectAttempts, shouldReconnect, reconnectTimer,
                   pingTimers, maxAttemptsError, delays, activeMasters,
                   activeSubscriptions, sessionSubs, replayed>>
    /\ UNCHANGED <<openedAfterFailure, lastPing, lastFill, lastCalls>>
    /\ UNCHANGED nonFeedVars

\* startHeartbeat: a tick of the 30000 ms interval; the ping is written only when
\* the current socket is open
PingTick ==
    /\ pingTimers > 0
    /\ lastPing' = IF wsState = "open" THEN "sent" ELSE "skipped"
    /\ UNCHANGED <<wsState, reconnectAttempts, shouldReconnect, reconnectTimer,
                   pingTimers, maxAttemptsError, delays, activeMasters,
                   activeSubscriptions, passes, sessionSubs, replayed, openedAfterFailure,
                   lastFill, lastCalls>>
    /\ UNCHANGED nonFeedVars

\* 'message' handler of the open socket: a frame of account_trades with a fill
\* record, for which handleTradeMessage emits 'trade'
OnTradeFrame ==
    /\ wsState = "open"
    /\ lastFill' = IF maxAttemptsError THEN "afterFailure" ELSE "live"
    /\ UNCHANGED <<wsState, reconnectAttempts, shouldReconnect, reconnectTimer,
                   pingTimers, maxAttemptsError, delays, activeMasters,
                   activeSubscriptions, passes, sessionSubs, replayed, openedAfterFailure,
                   lastPing, lastCalls>>
    /\ UNCHANGED nonFeedVars

\* the life of the session: the socket, its timers and what it emits; the passes
\* that 'connected' starts end, and the relationships stay as they are
SessionNext ==
    \/ Connect
    \/ OnOpen
    \/ OnClose
    \/ ReconnectTimerFires
    \/ Disconnect
    \/ PingTick
    \/ OnTradeFrame
    \/ \E p \in PassSlots : PassResume(p)
    \/ \E p \in PassSlots : PassFails(p)

FeedNext ==
    \/ Connect
    \/ OnOpen
    \/ OnClose
    \/ ReconnectTimerFires
    \/ Disconnect
    \/ \E w \in Wallets : ChangeRelationships(w)
    \/ PassStart
    \/ \E p \in PassSlots : PassResume(p)
    \/ \E p \in PassSlots : PassFails(p)

(***************************************************************************)
(* replicateToUser                                                         *)
(***************************************************************************)
\* sample inputs
TradeSymbols == {"BTC", "btc", "PUMP"}
UpperSymbols == {"BTC", "PUMP"}
TradeSides   == {"open_long", "close_long", "open_short", "close_short", "liquidation"}
TradeAmounts == {Rat(1, 500), Rat(30, 1)}
TradePrices  == {Rat(50000, 1), Rat(2, 1)}
Balances     == {Rat(10, 1), Rat(1000, 1)}
Sizings      == {[method |-> "multiplier", value |-> Rat(1, 2)],
                 [method |-> "fixed_usd", value |-> Rat(100, 1)],
                 [method |-> "balance_percent", value |-> Rat(50, 1)],
                 [method |-> "martingale", value |-> Rat(1, 1)]}
NoMultipliers   == [sym \in UpperSymbols |-> Zero]
SomeMultipliers == [sym \in UpperSymbols |-> IF sym = "BTC" THEN Rat(3, 2) ELSE Rat(2, 1)]
Leverages     == {Zero} \cup {Rat(k, 1) : k \in 1..MaxLeverage}
PositionLists == UNION {[1..k -> {[amount |-> Rat(40, 1), price |-> Rat(2, 1)]}] :
                           k \in 0..MaxPositions}

Relationships ==
    [symbols            : {{}, {"BTC"}},
     credential         : {"valid", "corrupt"},
     sizing             : Sizings,
     symbol_multipliers : {NoMultipliers, SomeMultipliers},
     max_position_cap   : {Zero, Rat(40, 1)},
     custom_leverage    : Leverages,
     max_total_exposure : {Zero, Rat(100, 1)}]

Trades == [symbol : TradeSymbols, side : TradeSides, amount : TradeAmounts,
           price : TradePrices]

NoRel   == CHOOSE r \in Relationships : TRUE
NoTrade == CHOOSE t \in Trades : TRUE
NoOrder == [symbol |-> "", amount |-> <<>>, side |-> "", slippage_percent |-> <<>>,
            reduce_only |-> FALSE]
NoPositions == [kind |-> "none", positions |-> <<>>]

\* String.prototype.toUpperCase on the symbols of the model
toUpperCase(sym) == IF sym = "btc" THEN "BTC" ELSE sym

\* the lot size the exchange lists for a symbol (GET /info)
ExchangeLot(sym) == IF sym = "BTC" THEN Rat(1, 100000) ELSE Rat(10, 1)

\* validation.ts:941: the lot size used when getMarketInfo returns null
DefaultLot == Rat(1, 100000)

ReplInit ==
    /\ rpc = "idle"
    /\ rel = NoRel
    /\ trade = NoTrade
    /\ copierAmount = Zero
    /\ baseAmount = Zero
    /\ lotSize = Zero
    /\ sizingBalance = Zero
    /\ available = Zero
    /\ positionsResp = NoPositions
    /\ order = NoOrder
    /\ outcome = ""
    /\ snapshotReads = 0
    /\ marketInfoCache = [sym \in UpperSymbols |-> Zero]

SymbolAllowed_Ignored(r, t) == TRUE

\* the negation of: symbols.length > 0 && !symbols.includes(trade.symbol)
SymbolAllowed(r, t) == r.symbols = {} \/ t.symbol \in r.symbols

BaseAmount_FixedTimesPrice(r, t, balance) ==
    CASE r.sizing.method = "multiplier"      -> RMul(t.amount, r.sizing.value)
      [] r.sizing.method = "fixed_usd"       -> RMul(r.sizing.value, t.price)
      [] r.sizing.method = "balance_percent" ->
             RDiv(RDiv(RMul(balance, r.sizing.value), Rat(100, 1)), t.price)

\* the switch on sizing_method (balance is the result of the first balance read)
BaseAmount(r, t, balance) ==
    CASE r.sizing.method = "multiplier"      -> RMul(t.amount, r.sizing.value)
      [] r.sizing.method = "fixed_usd"       -> RDiv(r.sizing.value, t.price)
      [] r.sizing.method = "balance_percent" ->
             RDiv(RDiv(RMul(balance, r.sizing.value), Rat(100, 1)), t.price)

\* if (symbol_multipliers?.[symbol]) copierAmount *= symbol_multipliers[symbol]
ApplySymbolMultiplier(r, t, amount) ==
    LET m == r.symbol_multipliers[toUpperCase(t.symbol)]
    IN  IF m # Zero THEN RMul(amount, m) ELSE amount

ApplyPositionCap_Unclamped(r, t, amount) == amount

\* if (max_position_cap) copierAmount = Math.min(copierAmount, cap / masterPrice)
ApplyPositionCap(r, t, amount) ==
    IF r.max_position_cap # Zero
       THEN RMin(amount, RDiv(r.max_position_cap, t.price))
       ELSE amount

\* lines 928-937 applied to the base amount
SizedAmount(r, t, balance) ==
    ApplyPositionCap(r, t, ApplySymbolMultiplier(r, t, BaseAmount(r, t, balance)))

Finish(why) ==
    /\ rpc' = "done"
    /\ outcome' = why

\* replicateToUser up to its first await: symbol filter, decryption, client,
\* and for multiplier / fixed_usd the sizing of lines 899-937
ReplStart(r, t, apiUrl) ==
    /\ rpc = "idle"
    /\ rel' = r
    /\ trade' = t
    /\ IF ~SymbolAllowed(r, t) THEN
           Finish("filtered") /\ UNCHANGED <<copierAmount, baseAmount, snapshotReads>>
       ELSE IF r.credential = "corrupt" THEN
           Finish("decrypt") /\ UNCHANGED <<copierAmount, baseAmount, snapshotReads>>
       ELSE IF ~apiUrl THEN
           Finish("noApiUrl") /\ UNCHANGED <<copierAmount, baseAmount, snapshotReads>>
       ELSE IF r.sizing.method = "balance_percent" THEN
           /\ rpc' = "balance1"
           /\ snapshotReads' = snapshotReads + 1
           /\ UNCHANGED <<copierAmount, baseAmount, outcome>>
       ELSE IF r.sizing.method \in {"multiplier", "fixed_usd"} THEN
           /\ rpc' = "market"
           /\ baseAmount' = BaseAmount(r, t, Zero)
           /\ copierAmount' = SizedAmount(r, t, Zero)
           /\ UNCHANGED <<outcome, snapshotReads>>
       ELSE
           Finish("unknownMethod") /\ UNCHANGED <<copierAmount, baseAmount, snapshotReads>>
    /\ UNCHANGED <<lotSize, sizingBalance, available, positionsResp, order,
                   marketInfoCache>>
    /\ UNCHANGED nonReplVars

\* balance_percent: getAccountInfo returns (lines 913-921), then lines 928-937
Balance1Returns(resp) ==
    /\ rpc = "balance1"
    /\ IF resp.kind = "reject" THEN
           Finish("error") /\ UNCHANGED <<copierAmount, baseAmount, sizingBalance>>
       ELSE IF resp.kind = "unsuccessful" THEN
           Finish("noBalance") /\ UNCHANGED <<copierAmount, baseAmount, sizingBalance>>
       ELSE
           /\ sizingBalance' = resp.balance
           /\ baseAmount' = BaseAmount(rel, trade, resp.balance)
           /\ copierAmount' = SizedAmount(rel, trade, resp.balance)
           /\ rpc' = "market"
           /\ UNCHANGED outcome
    /\ UNCHANGED <<rel, trade, lotSize, available, positionsResp, order, snapshotReads,
                   marketInfoCache>>
    /\ UNCHANGED nonReplVars


\* getMarketInfo: the cached market, or the market fetched from GET /info (and
\* then cached), or null (Zero) when the fetch fails or does not list the symbol
getMarketInfo(cache, sym, fetch) ==
    IF cache[sym] # Zero THEN cache[sym]
    ELSE IF fetch = "listed" THEN ExchangeLot(sym)
    ELSE Zero

\* const lotSize = marketInfo ? parseFloat(marketInfo.lot_size) : 0.00001
LotSizeOf(marketInfo) == IF marketInfo # Zero THEN marketInfo ELSE DefaultLot

BelowLot_Never(amount) == FALSE

\* if (copierAmount <= 0)
BelowLot(amount) == RLeq(amount, Zero)

\* getMarketInfo returns (lines 940-950); then the balance read is enqueued
MarketInfoReturns(fetch) ==
    /\ rpc = "market"
    /\ LET sym    == toUpperCase(trade.symbol)
           info   == getMarketInfo(marketInfoCache, sym, fetch)
           lot    == LotSizeOf(info)
           amount == Quantize(copierAmount, lot)
       IN  /\ marketInfoCache' = [marketInfoCache EXCEPT ![sym] = info]
           /\ lotSize' = lot
           /\ copierAmount' = amount
           /\ IF BelowLot(amount)
                 THEN Finish("belowLot") /\ UNCHANGED snapshotReads
                 ELSE /\ rpc' = "balance2"
                      /\ snapshotReads' = snapshotReads + 1
                      /\ UNCHANGED outcome
    /\ UNCHANGED <<rel, trade, baseAmount, sizingBalance, available, positionsResp, order>>
    /\ UNCHANGED nonReplVars

\* lines 974-980: the leverage clamp and the second rounding
LeverageClamp(r, t, balance, amount, lot) ==
    IF r.custom_leverage # Zero
       THEN Quantize(RMin(amount, RDiv(RMul(balance, r.custom_leverage), t.price)), lot)
       ELSE amount

InsufficientBalance_Ignored(balance, amount, t) == FALSE

\* const cost = copierAmount * parseFloat(trade.price); if (available < cost)
InsufficientBalance(balance, amount, t) == RLt(balance, RMul(amount, t.price))

getSide_AllBid(tradeSide) == IF tradeSide \in {"open_long", "close_short", "close_long", "open_short"}
                                THEN "bid" ELSE "throw"

\* getSide: 'bid', 'ask', or throw new Error('Unknown trade side')
getSide(tradeSide) ==
    IF tradeSide \in {"open_long", "close_short"} THEN "bid"
    ELSE IF tradeSide \in {"close_long", "open_short"} THEN "ask"
    ELSE "throw"

\* trade.side.includes('close') on the trade sides of the model
includesClose(tradeSide) == tradeSide \in {"close_long", "close_short"}

\* lines 1031-1041: derive the side, call createMarketOrder (which enqueues)
SubmitOrder(amount, lot) ==
    IF getSide(trade.side) = "throw"
       THEN Finish("error") /\ UNCHANGED order
       ELSE /\ order' = [symbol           |-> trade.symbol,
                         amount           |-> FormatAmount(amount, LotDecimals(lot)),
                         side             |-> getSide(trade.side),
                         slippage_percent |-> <<"0", ".", "5">>,
                         reduce_only      |-> includesClose(trade.side)]
            /\ rpc' = "order"
            /\ UNCHANGED outcome

\* the second getAccountInfo returns (lines 952-1007)
Balance2Returns(resp) ==
    /\ rpc = "balance2"
    /\ IF resp.kind = "reject" THEN
           Finish("error") /\ UNCHANGED <<available, copierAmount, order>>
       ELSE IF resp.kind = "unsuccessful" THEN
           Finish("noBalance") /\ UNCHANGED <<available, copierAmount, order>>
       ELSE
           LET amount == LeverageClamp(rel, trade, resp.balance, copierAmount, lotSize)
           IN  /\ available' = resp.balance
               /\ copierAmount' = amount
               /\ IF rel.custom_leverage # Zero /\ BelowLot(amount) THEN
                      Finish("belowLotAfterLeverage") /\ UNCHANGED order
                  ELSE IF InsufficientBalance(resp.balance, amount, trade) THEN
                      Finish("insufficientBalance") /\ UNCHANGED order
                  ELSE IF rel.max_total_exposure # Zero THEN
                      rpc' = "positions" /\ UNCHANGED <<order, outcome>>
                  ELSE
                      SubmitOrder(amount, lotSize)
    /\ UNCHANGED <<rel, trade, baseAmount, lotSize, sizingBalance, positionsResp,
                   snapshotReads, marketInfoCache>>
    /\ UNCHANGED nonReplVars

RECURSIVE TotalExposure(_)
\* positions.reduce((sum, p) => sum + amount * price, 0)
TotalExposure(positions) ==
    IF positions = <<>> THEN Zero
    ELSE RAdd(RMul(Head(positions).amount, Head(positions).price),
              TotalExposure(Tail(positions)))

\* if (positionsResponse.success && positionsResponse.data)
PositionsUsable(resp) == resp.kind = "ok"

\* totalExposure + copierAmount * price > max_total_exposure
ExposureExceeded(r, t, positions, amount) ==
    RLt(r.max_total_exposure, RAdd(TotalExposure(positions), RMul(amount, t.price)))

\* publicRestClient.getPositions returns (lines 1009-1029)
PositionsReturns(resp) ==
    /\ rpc = "positions"
    /\ positionsResp' = resp
    /\ IF resp.kind = "reject" THEN
           Finish("error") /\ UNCHANGED order
       ELSE IF PositionsUsable(resp)
               /\ ExposureExceeded(rel, trade, resp.positions, copierAmount) THEN
           Finish("exposure") /\ UNCHANGED order
       ELSE
           SubmitOrder(copierAmount, lotSize)
    /\ UNCHANGED <<rel, trade, copierAmount, baseAmount, lotSize, sizingBalance,
                   available, snapshotReads, marketInfoCache>>
    /\ UNCHANGED nonReplVars

OrderReturns_Again(kind) ==
    /\ rpc = "order"
    /\ IF kind = "failure" THEN rpc' = "positions" /\ UNCHANGED outcome
                           ELSE Finish(kind)
    /\ UNCHANGED <<rel, trade, copierAmount, baseAmount, lotSize, sizingBalance,
                   available, positionsResp, order, snapshotReads, marketInfoCache>>
    /\ UNCHANGED nonReplVars

\* createMarketOrder settles (lines 1043-1050)
OrderReturns(kind) ==
    /\ rpc = "order"
    /\ Finish(kind)
    /\ UNCHANGED <<rel, trade, copierAmount, baseAmount, lotSize, sizingBalance,
                   available, positionsResp, order, snapshotReads, marketInfoCache>>
    /\ UNCHANGED nonReplVars

\* the call has returned; the next call starts from a clean frame
ReplReturn ==
    /\ rpc = "done"
    /\ rpc' = "idle"
    /\ rel' = NoRel
    /\ trade' = NoTrade
    /\ copierAmount' = Zero
    /\ baseAmount' = Zero
    /\ lotSize' = Zero
    /\ sizingBalance' = Zero
    /\ available' = Zero
    /\ positionsResp' = NoPositions
    /\ order' = NoOrder
    /\ outcome' = ""
    /\ snapshotReads' = 0
    /\ UNCHANGED marketInfoCache
    /\ UNCHANGED nonReplVars

BalanceResponses ==
    {[kind |-> "reject", balance |-> Zero], [kind |-> "unsuccessful", balance |-> Zero]}
    \cup [kind : {"ok"}, balance : Balances]

PositionsResponses ==
    [kind : {"reject", "unsuccessful", "nodata", "ok"}, positions : PositionLists]

ReplNext ==
    \/ rpc = "idle" /\ \E r \in Relationships, t \in Trades, apiUrl \in BOOLEAN :
                          ReplStart(r, t, apiUrl)
    \/ \E resp \in BalanceResponses : Balance1Returns(resp)
    \/ \E fetch \in {"listed", "unlisted", "failed"} : MarketInfoReturns(fetch)
    \/ \E resp \in BalanceResponses : Balance2Returns(resp)
    \/ \E resp \in PositionsResponses : PositionsReturns(resp)
    \/ \E kind \in {"success", "failure", "error"} : OrderReturns(kind)
    \/ ReplReturn


(***************************************************************************)
(* getMarketInfo, called by replicateTrade (line 1059) and by every         *)
(* replicateToUser call (line 940); the calls of Fills that overlap overlap *)
(***************************************************************************)
LookupSlots == 1..MaxLookups
NoLookup == [phase |-> "idle", sym |-> "BTC", market |-> Zero]

\* a lot size the exchange lists for the symbol after it changed its listing
RelistedLot(sym) == IF sym = "BTC" THEN Rat(1, 1000) ELSE Rat(1, 1)

\* the variables of one replicateToUser call, which these calls leave alone
replCallVars == <<rpc, rel, trade, copierAmount, baseAmount, lotSize, sizingBalance,
                  available, positionsResp, order, outcome, snapshotReads>>

\* the variables of the other components
nonReplLookVars == <<restVars, feedVars, fanVars, copVars, quantVars, msgVars, apprVars, opsVars, sizVars, loadVars, canonVars, procVars, cliVars>>
nonCanonVars == <<restVars, feedVars, replVars, fanVars, copVars, quantVars, msgVars, apprVars, opsVars, sizVars, lookVars, loadVars, procVars, cliVars>>
nonProcVars == <<restVars, feedVars, replVars, fanVars, copVars, quantVars, msgVars, apprVars, opsVars, sizVars, lookVars, loadVars, canonVars, cliVars>>

LookInit ==
    /\ lookups = [i \in LookupSlots |-> NoLookup]
    /\ listed = [sym \in UpperSymbols |-> ExchangeLot(sym)]

\* getMarketInfo up to its await: the cached market, or fetch(url) (lines 800-808)
LookupStart(i, sym) ==
    /\ lookups[i].phase = "idle"
    /\ lookups' = [lookups EXCEPT ![i] =
                      IF marketInfoCache[sym] # Zero
                         THEN [phase |-> "done", sym |-> sym, market |-> marketInfoCache[sym]]
                         ELSE [phase |-> "fetch", sym |-> sym, market |-> Zero]]
    /\ UNCHANGED <<listed, marketInfoCache, replCallVars>>
    /\ UNCHANGED nonReplLookVars

\* the answer of GET /info lists the symbol: marketInfoCache.set (lines 825-829)
LookupFound(i) ==
    /\ lookups[i].phase = "fetch"
    /\ marketInfoCache' = [marketInfoCache EXCEPT ![lookups[i].sym] = listed[lookups[i].sym]]
    /\ lookups' = [lookups EXCEPT ![i].phase = "done",
                                  ![i].market = listed[lookups[i].sym]]
    /\ UNCHANGED <<listed, replCallVars>>
    /\ UNCHANGED nonReplLookVars

\* fetch throws, the status is not ok, the body is no array or does not list
\* the symbol: return null (lines 810-822, 830-834)
LookupFails(i) ==
    /\ lookups[i].phase = "fetch"
    /\ lookups' = [lookups EXCEPT ![i].phase = "done", ![i].market = Zero]
    /\ UNCHANGED <<listed, marketInfoCache, replCallVars>>
    /\ UNCHANGED nonReplLookVars

\* the caller takes the market returned
LookupReturn(i) ==
    /\ lookups[i].phase = "done"
    /\ lookups' = [lookups EXCEPT ![i] = NoLookup]
    /\ UNCHANGED <<listed, marketInfoCache, replCallVars>>
    /\ UNCHANGED nonReplLookVars

\* the exchange changes the lot size it lists for a symbol
Relist(sym) ==
    /\ listed' = [listed EXCEPT ![sym] = IF listed[sym] = ExchangeLot(sym)
                                            THEN RelistedLot(sym) ELSE ExchangeLot(sym)]
    /\ UNCHANGED <<lookups, marketInfoCache, replCallVars>>
    /\ UNCHANGED nonReplLookVars

LookNext ==
    \/ \E i \in LookupSlots, sym \in UpperSymbols : LookupStart(i, sym)
    \/ \E i \in LookupSlots : LookupFound(i)
    \/ \E i \in LookupSlots : LookupFails(i)
    \/ \E i \in LookupSlots : LookupReturn(i)
    \/ \E sym \in UpperSymbols : Relist(sym)

(***************************************************************************)
(* replicateTrade: one Fill fanned out to the relationships of its master. *)
(* Each replicateToUser call has a REST client of its own for the balance  *)
(* reads and the order (validation.ts:888), whose answers are inputs here; *)
(* the positions read goes through the queue of the one publicRestClient.  *)
(***************************************************************************)
Copiers == {"c1", "c2"}
NoCall == [pc |-> "idle", exposure |-> FALSE, own |-> "ok", submitted |-> FALSE]

FanInit ==
    /\ fanPc = "idle"
    /\ fills = 0
    /\ calls = [c \in Copiers |-> NoCall]
    /\ reqOf = [i \in ReqIds |-> "none"]
    /\ callRejected = {}
    /\ tradeRejected = FALSE

TrySites_OrderOutside == {"decrypt", "balance1", "balance2", "positions"}

\* replicateToUser: the awaits and calls that its try blocks enclose
\* (lines 862-1048, and 871-879 around decryptApiKey)
TrySites == {"decrypt", "balance1", "balance2", "positions", "order"}

\* replicateTrade: what its try block encloses (lines 1055-1085)
TradeTrySites == {"findAll", "all"}

\* the call of copier c ends; own names the step of the call that failed, or is
\* "skipped" when one of its skip rules ended it, or "ok"
EndCall(c, own) == [calls[c] EXCEPT !.pc = "done", !.own = own]

\* the promise of replicateToUser is rejected when the error is thrown outside a try
Escapes(site) == site \notin TrySites

\* the trade handler: replicateTrade(trade.trader, trade) up to its first await
FanFill ==
    /\ fanPc = "idle"
    /\ fills < MaxFills
    /\ fanPc' = "prime"
    /\ fills' = fills + 1
    /\ UNCHANGED <<calls, reqOf, callRejected, tradeRejected>>
    /\ UNCHANGED <<restVars, nonFanVars>>

\* replicateTrade: getMarketInfo returns (it never throws), findAll is awaited
FanPrimed ==
    /\ fanPc = "prime"
    /\ fanPc' = "query"
    /\ UNCHANGED <<fills, calls, reqOf, callRejected, tradeRejected>>
    /\ UNCHANGED <<restVars, nonFanVars>>

\* replicateTrade: findAll throws and the catch logs it
FanQueryFails ==
    /\ fanPc = "query"
    /\ fanPc' = "idle"
    /\ tradeRejected' = (tradeRejected \/ "findAll" \notin TradeTrySites)
    /\ UNCHANGED <<fills, calls, reqOf, callRejected>>
    /\ UNCHANGED <<restVars, nonFanVars>>

StartKinds == {"filtered", "decrypt", "unknownMethod", "balance1", "market"}

\* replicateToUser up to its first await
StartCall(kind, exposure) ==
    CASE kind \in {"filtered", "unknownMethod"} ->
             [pc |-> "done", exposure |-> exposure, own |-> "skipped", submitted |-> FALSE]
      [] kind = "decrypt" ->
             [pc |-> "done", exposure |-> exposure, own |-> "decrypt", submitted |-> FALSE]
      [] OTHER ->
             [pc |-> kind, exposure |-> exposure, own |-> "ok", submitted |-> FALSE]

\* replicateTrade: findAll returns the relationships rels; none: return; else
\* relationships.map(rel => replicateToUser(rel, trade)) starts every call
FanQuery(rels, start, exposure) ==
    /\ fanPc = "query"
    /\ IF rels = {}
          THEN fanPc' = "idle" /\ UNCHANGED <<calls, callRejected>>
          ELSE /\ fanPc' = "fanout"
               /\ calls' = [c \in Copiers |->
                               IF c \in rels THEN StartCall(start[c], exposure[c])
                                             ELSE NoCall]
               /\ callRejected' = callRejected \cup
                      {c \in rels : start[c] = "decrypt" /\ Escapes("decrypt")}
    /\ UNCHANGED <<fills, reqOf, tradeRejected>>
    /\ UNCHANGED <<restVars, nonFanVars>>

\* balance_percent: the first getAccountInfo settles (lines 913-921)
CallBalance1(c, resp) ==
    /\ calls[c].pc = "balance1"
    /\ calls' = [calls EXCEPT ![c] =
                    CASE resp = "ok"           -> [@ EXCEPT !.pc = "market"]
                      [] resp = "unsuccessful" -> EndCall(c, "balance1")
                      [] resp = "reject"       -> EndCall(c, "balance1")]
    /\ callRejected' = IF resp = "reject" /\ Escapes("balance1")
                          THEN callRejected \cup {c} ELSE callRejected
    /\ UNCHANGED <<fanPc, fills, reqOf, tradeRejected>>
    /\ UNCHANGED <<restVars, nonFanVars>>

\* getMarketInfo returns (lines 940-950); below: the rounded amount is <= 0
CallMarket(c, below) ==
    /\ calls[c].pc = "market"
    /\ calls' = [calls EXCEPT ![c] =
                    IF below THEN EndCall(c, "skipped") ELSE [@ EXCEPT !.pc = "balance2"]]
    /\ UNCHANGED <<fanPc, fills, reqOf, callRejected, tradeRejected>>
    /\ UNCHANGED <<restVars, nonFanVars>>

FreeIds == {i \in ReqIds : reqOf[i] = "none" /\ future[i] # "pending" /\ ~InFlight(i)}

\* the second getAccountInfo settles (lines 952-1041); check: the verdict of the
\* leverage and balance rules.  With an exposure limit the positions read is put
\* on the queue of publicRestClient, else the order is submitted.
CallBalance2(c, resp, check) ==
    /\ calls[c].pc = "balance2"
    /\ callRejected' = IF resp = "reject" /\ Escapes("balance2")
                          THEN callRejected \cup {c} ELSE callRejected
    /\ IF resp # "ok" THEN
           /\ calls' = [calls EXCEPT ![c] = EndCall(c, "balance2")]
           /\ UNCHANGED <<reqOf, restVars>>
       ELSE IF check = "skip" THEN
           /\ calls' = [calls EXCEPT ![c] = EndCall(c, "skipped")]
           /\ UNCHANGED <<reqOf, restVars>>
       ELSE IF calls[c].exposure THEN
           /\ FreeIds # {}
           /\ LET i == CHOOSE j \in FreeIds : \A k \in FreeIds : j <= k
              IN  Push(i) /\ reqOf' = [reqOf EXCEPT ![i] = c]
           /\ calls' = [calls EXCEPT ![c] = [@ EXCEPT !.pc = "positions"]]
       ELSE
           /\ calls' = [calls EXCEPT ![c] = [@ EXCEPT !.pc = "order", !.submitted = TRUE]]
           /\ UNCHANGED <<reqOf, restVars>>
    /\ UNCHANGED <<fanPc, fills, tradeRejected>>
    /\ UNCHANGED nonFanVars

\* the settled promise and its request object are dropped by their only holder
Forget(i) ==
    /\ future' = [future EXCEPT ![i] = "none"]
    /\ dispatches' = [dispatches EXCEPT ![i] = 0]
    /\ waited' = [waited EXCEPT ![i] = 0]
    /\ UNCHANGED <<requestQueue, requestsPerMinute, loop, current, timerMs,
                   windowDispatches>>

\* publicRestClient.getPositions settles (lines 1009-1041); exceeded: the positions
\* were usable and the exposure rule skips
CallPositions(c, i, exceeded) ==
    /\ calls[c].pc = "positions"
    /\ reqOf[i] = c
    /\ future[i] \notin {"none", "pending"}
    /\ reqOf' = [reqOf EXCEPT ![i] = "none"]
    /\ calls' = [calls EXCEPT ![c] =
                    IF future[i] # "resolved" THEN EndCall(c, "positions")
                    ELSE IF exceeded THEN EndCall(c, "skipped")
                    ELSE [@ EXCEPT !.pc = "order", !.submitted = TRUE]]
    /\ callRejected' = IF future[i] # "resolved" /\ Escapes("positions")
                          THEN callRejected \cup {c} ELSE callRejected
    /\ Forget(i)
    /\ UNCHANGED <<fanPc, fills, tradeRejected>>
    /\ UNCHANGED nonFanVars

\* createMarketOrder settles (lines 1043-1050)
CallOrder(c, resp) ==
    /\ calls[c].pc = "order"
    /\ calls' = [calls EXCEPT ![c] = EndCall(c, IF resp = "success" THEN "ok" ELSE "order")]
    /\ callRejected' = IF resp = "reject" /\ Escapes("order")
                          THEN callRejected \cup {c} ELSE callRejected
    /\ UNCHANGED <<fanPc, fills, reqOf, tradeRejected>>
    /\ UNCHANGED <<restVars, nonFanVars>>

\* Promise.all settles: every call has ended (a rejected call rejects it, which
\* the catch of replicateTrade logs)
FanComplete ==
    /\ fanPc = "fanout"
    /\ \A c \in Copiers : calls[c].pc \in {"idle", "done"}
    /\ fanPc' = "idle"
    /\ calls' = [c \in Copiers |-> NoCall]
    /\ tradeRejected' = (tradeRejected \/ (callRejected # {} /\ "all" \notin TradeTrySites))
    /\ UNCHANGED <<fills, reqOf, callRejected>>
    /\ UNCHANGED <<restVars, nonFanVars>>

CallResponses == {"ok", "unsuccessful", "reject"}

CallStep(c) ==
    \/ \E resp \in CallResponses : CallBalance1(c, resp)
    \/ \E below \in BOOLEAN : CallMarket(c, below)
    \/ \E resp \in CallResponses, check \in {"pass", "skip"} : CallBalance2(c, resp, check)
    \/ \E i \in ReqIds, exceeded \in BOOLEAN : CallPositions(c, i, exceeded)
    \/ \E resp \in {"success", "failure", "reject"} : CallOrder(c, resp)

\* the dispatcher of publicRestClient
PublicClientStep ==
    \/ RateTick
    \/ Dispatch
    \/ Idle
    \/ Wake
    \/ FetchOk
    \/ Fetch429Retry
    \/ RetryRequeue
    \/ Fetch429Reject
    \/ FetchHttpError
    \/ FetchThrows

FanNext ==
    \/ FanFill
    \/ FanPrimed
    \/ FanQueryFails
    \/ \E rels \in SUBSET Copiers, start \in [Copiers -> StartKinds],
          exposure \in [Copiers -> BOOLEAN] : FanQuery(rels, start, exposure)
    \/ \E c \in Copiers : CallStep(c)
    \/ FanComplete
    \/ PublicClientStep

(***************************************************************************)
(* The Fills of one master and one copier.  The trade handler does not     *)
(* await replicateTrade (validation.ts:1166), so the calls of successive   *)
(* Fills run side by side; each replicateToUser call constructs its own    *)
(* PacificaRestClient (validation.ts:888) with its own queue and counter.  *)
(***************************************************************************)
CopInit ==
    /\ pipeline = <<>>
    /\ copierDispatches = 0
    /\ inverted = FALSE

RemoveAt(seq, k) == SubSeq(seq, 1, k - 1) \o SubSeq(seq, k + 1, Len(seq))

\* the trade handler: replicateTrade(trade.trader, trade), not awaited
CopDeliver ==
    /\ Len(pipeline) < MaxLive
    /\ pipeline' = Append(pipeline, [pc |-> "prime", rpm |-> 0, overtaken |-> FALSE])
    /\ UNCHANGED <<copierDispatches, inverted>>
    /\ UNCHANGED nonCopVars

\* replicateTrade: getMarketInfo returns, findAll is awaited
CopPrimed(k) ==
    /\ pipeline[k].pc = "prime"
    /\ pipeline' = [pipeline EXCEPT ![k].pc = "query"]
    /\ UNCHANGED <<copierDispatches, inverted>>
    /\ UNCHANGED nonCopVars

\* replicateTrade: findAll returns; with the copier's relationship in the result
\* replicateToUser constructs the client (requestsPerMinute = 0) and, after sizing,
\* puts the balance read on its queue; else the call ends
CopQueried(k, eligible) ==
    /\ pipeline[k].pc = "query"
    /\ pipeline' = IF eligible THEN [pipeline EXCEPT ![k].pc = "balanceQueued", ![k].rpm = 0]
                               ELSE RemoveAt(pipeline, k)
    /\ UNCHANGED <<copierDispatches, inverted>>
    /\ UNCHANGED nonCopVars

\* the calls of earlier Fills whose order has not been handed to fetch
Behind(k) == {j \in 1..(k - 1) : pipeline[j].pc # "orderFetch"}

\* processQueue of the client of call k: shift, count, hand to fetch
CopDispatch(k) ==
    /\ pipeline[k].pc \in {"balanceQueued", "orderQueued"}
    /\ pipeline[k].rpm < maxRequestsPerMinute
    /\ copierDispatches < MaxWindow
    /\ copierDispatches' = copierDispatches + 1
    /\ IF pipeline[k].pc = "balanceQueued"
          THEN /\ pipeline' = [pipeline EXCEPT ![k].pc = "balanceFetch", ![k].rpm = @ + 1]
               /\ UNCHANGED inverted
          ELSE /\ pipeline' = [j \in 1..Len(pipeline) |->
                                  IF j = k THEN [pipeline[j] EXCEPT !.pc = "orderFetch",
                                                                    !.rpm = @ + 1]
                                  ELSE IF j \in Behind(k)
                                          THEN [pipeline[j] EXCEPT !.overtaken = TRUE]
                                          ELSE pipeline[j]]
               /\ inverted' = (inverted \/ pipeline[k].overtaken)
    /\ UNCHANGED nonCopVars

\* getAccountInfo settles: the checks pass and createMarketOrder puts the order on
\* the queue, or the call ends (failed read, insufficient balance, ...)
CopBalanceReturns(k, pass) ==
    /\ pipeline[k].pc = "balanceFetch"
    /\ pipeline' = IF pass THEN [pipeline EXCEPT ![k].pc = "orderQueued"]
                           ELSE RemoveAt(pipeline, k)
    /\ UNCHANGED <<copierDispatches, inverted>>
    /\ UNCHANGED nonCopVars

\* createMarketOrder settles and the call ends
CopOrderReturns(k) ==
    /\ pipeline[k].pc = "orderFetch"
    /\ pipeline' = RemoveAt(pipeline, k)
    /\ UNCHANGED <<copierDispatches, inverted>>
    /\ UNCHANGED nonCopVars

\* the 60000 ms interval of the client of call k
CopClientTick(k) ==
    /\ pipeline[k].pc \notin {"prime", "query"}
    /\ pipeline[k].rpm # 0
    /\ pipeline' = [pipeline EXCEPT ![k].rpm = 0]
    /\ UNCHANGED <<copierDispatches, inverted>>
    /\ UNCHANGED nonCopVars

\* a 60000 ms window of the copier account ends and the next begins
CopWindowTick ==
    /\ copierDispatches # 0
    /\ copierDispatches' = 0
    /\ UNCHANGED <<pipeline, inverted>>
    /\ UNCHANGED nonCopVars

CopNext ==
    \/ CopDeliver
    \/ \E k \in 1..Len(pipeline) : CopPrimed(k)
    \/ \E k \in 1..Len(pipeline), eligible \in BOOLEAN : CopQueried(k, eligible)
    \/ \E k \in 1..Len(pipeline) : CopDispatch(k)
    \/ \E k \in 1..Len(pipeline), pass \in BOOLEAN : CopBalanceReturns(k, pass)
    \/ \E k \in 1..Len(pipeline) : CopOrderReturns(k)
    \/ \E k \in 1..Len(pipeline) : CopClientTick(k)
    \/ CopWindowTick

(***************************************************************************)
(* The roundings of replicateToUser as the machine computes them: the      *)
(* amount and the lot size are binary64 numbers parsed from decimal text.  *)
(* The amount is the Fill's amount, which multiplier sizing with value 1   *)
(* leaves as it is; the second rounding is the one after a leverage clamp  *)
(* that did not lower the amount.                                          *)
(***************************************************************************)
QuantAmounts == {toFixed(Rat(n, 100), 2) : n \in 1..MaxHundredths}
QuantLots    == {<<"0", ".", "0", "1">>, <<"0", ".", "1">>, <<"1">>}

QuantInit ==
    /\ qpc = "idle"
    /\ qx = FZero
    /\ qlot = FZero
    /\ q1 = FZero
    /\ q2 = FZero

\* lines 892, 941, 945: parseFloat(trade.amount), parseFloat(marketInfo.lot_size),
\* copierAmount = Math.floor(copierAmount / lotSize) * lotSize
QuantFirst(amount, lot) ==
    /\ qpc = "idle"
    /\ qpc' = "rounded"
    /\ qx' = parseFloat(amount)
    /\ qlot' = parseFloat(lot)
    /\ q1' = Quantize64(parseFloat(amount), parseFloat(lot))
    /\ UNCHANGED q2
    /\ UNCHANGED nonQuantVars

\* lines 977-980: Math.min leaves the amount, then the second rounding
QuantSecond ==
    /\ qpc = "rounded"
    /\ qpc' = "rounded2"
    /\ q2' = Quantize64(q1, qlot)
    /\ UNCHANGED <<qx, qlot, q1>>
    /\ UNCHANGED nonQuantVars

\* the call returns
QuantReturn ==
    /\ qpc \in {"rounded", "rounded2"}
    /\ qpc' = "idle"
    /\ qx' = FZero
    /\ qlot' = FZero
    /\ q1' = FZero
    /\ q2' = FZero
    /\ UNCHANGED nonQuantVars

QuantNext ==
    \/ \E amount \in QuantAmounts, lot \in QuantLots : QuantFirst(amount, lot)
    \/ QuantSecond
    \/ QuantReturn

(***************************************************************************)
(* The message handler of PacificaWebSocketClient (part_001:63-82) and      *)
(* handleTradeMessage (part_001:147-166).  A frame is carried by what       *)
(* JSON.parse makes of its text: nothing (the text is not JSON), or a       *)
(* message with a channel and, possibly, a data array of trade records.     *)
(* The handler, the forEach and the listeners of 'trade' run synchronously, *)
(* so one frame is one step.                                                *)
(***************************************************************************)
FillEvents_MakerOnly == {"fulfill_maker"}

\* part_001:150  trade.te === 'fulfill_maker' || trade.te === 'fulfill_taker'
FillEvents == {"fulfill_maker", "fulfill_taker"}

Channels == {"pong", "account_trades", "subscribe"}

\* TradeData (part_001:4-11)
TradeData(s, ts, te) == [s |-> s, ts |-> ts, p |-> "50000", a |-> "0.1", te |-> te, u |-> "m1"]

\* the sample records: a maker fill, a taker fill and an event that is not a fill
TradeRecords ==
    {TradeData("BTC", "bid", "fulfill_maker"), TradeData("ETH", "ask", "fulfill_taker"),
     TradeData("BTC", "bid", "order_created")}

RECURSIVE SeqsUpTo(_, _)
SeqsUpTo(S, n) ==
    IF n = 0 THEN {<<>>}
    ELSE LET shorter == SeqsUpTo(S, n - 1)
         IN  shorter \cup {Append(q, x) : q \in {r \in shorter : Len(r) = n - 1}, x \in S}

NoData == [present |-> FALSE, records |-> <<>>]
NotJson == [json |-> FALSE, channel |-> "", data |-> NoData]

Frames ==
    {NotJson} \cup
    [json : {TRUE}, channel : Channels,
     data : {NoData} \cup [present : {TRUE}, records : SeqsUpTo(TradeRecords, MaxRecords)]]

\* ParsedTrade (part_001:151-159), without the timestamp
ParsedTrade(t) ==
    [symbol |-> t.s, side |-> t.ts, amount |-> t.a, price |-> t.p, eventType |-> t.te,
     trader |-> t.u]

\* message.data.forEach from record i on; out is what was emitted before it
RECURSIVE handleTradeMessage(_, _, _)
handleTradeMessage(records, i, out) ==
    IF i > Len(records) THEN out
    ELSE handleTradeMessage(records, i + 1,
             IF records[i].te \in FillEvents THEN Append(out, ParsedTrade(records[i]))
             ELSE out)

MsgInit ==
    /\ frame = NotJson
    /\ emitted = <<>>
    /\ errorEvents = 0

\* ws.on('message')
OnMessage(raw) ==
    /\ frame' = raw
    /\ IF ~raw.json THEN
           \* JSON.parse throws; the catch emits 'error'
           /\ emitted' = <<>>
           /\ errorEvents' = 1
       ELSE IF raw.channel = "pong" THEN
           /\ emitted' = <<>>
           /\ errorEvents' = 0
       ELSE IF raw.channel = "account_trades" /\ raw.data.present THEN
           /\ emitted' = handleTradeMessage(raw.data.records, 1, <<>>)
           /\ errorEvents' = 0
       ELSE
           /\ emitted' = <<>>
           /\ errorEvents' = 0
    /\ UNCHANGED nonMsgVars

MsgNext == \E raw \in Frames : OnMessage(raw)

(***************************************************************************)
(* The approval workflow (validation.ts:143-232, 731-788), the endpoints    *)
(* that create, update and delete relationships (261-634) and the Fills     *)
(* that replicateTrade fans out to the active relationships (1054-1086).    *)
(* One master; signature and format validation of the endpoints are         *)
(* inputs that passed.                                                      *)
(***************************************************************************)
CopierWallets == {"w1", "w2"}
RelIds == 1..MaxRels
NoRow == [user_wallet |-> "", is_active |-> FALSE]

ApprInit ==
    /\ traders = [w \in CopierWallets |-> "none"]
    /\ relationships = [i \in RelIds |-> NoRow]
    /\ submitted = {}

\* POST /api/copy/request and POST /api/traders: a row with is_approved = false
CopyRequest(w) ==
    /\ traders[w] = "none"
    /\ traders' = [traders EXCEPT ![w] = "pending"]
    /\ UNCHANGED <<relationships, submitted>>
    /\ UNCHANGED nonApprVars

\* POST /admin/approve/:wallet and PATCH /api/traders/:id/approve
AdminApprove(w) ==
    /\ traders[w] = "pending"
    /\ traders' = [traders EXCEPT ![w] = "approved"]
    /\ UNCHANGED <<relationships, submitted>>
    /\ UNCHANGED nonApprVars

\* POST /admin/deny/:wallet: trader.destroy(); the relationships are not touched
AdminDeny(w) ==
    /\ traders[w] # "none"
    /\ traders' = [traders EXCEPT ![w] = "none"]
    /\ UNCHANGED <<relationships, submitted>>
    /\ UNCHANGED nonApprVars

\* POST /api/copy/create: 403 unless the trader row exists and is approved
CopyCreate(i, w) ==
    /\ relationships[i] = NoRow
    /\ \A j \in RelIds : j < i => relationships[j] # NoRow
    /\ traders[w] = "approved"
    /\ relationships' = [relationships EXCEPT ![i] = [user_wallet |-> w, is_active |-> TRUE]]
    /\ UNCHANGED <<traders, submitted>>
    /\ UNCHANGED nonApprVars

\* PATCH /api/copy/relationships/:id with is_active in the body
RelUpdate(i, active) ==
    /\ relationships[i] # NoRow
    /\ relationships' = [relationships EXCEPT ![i].is_active = active]
    /\ UNCHANGED <<traders, submitted>>
    /\ UNCHANGED nonApprVars

\* DELETE /api/copy/relationships/:id
RelDelete(i) ==
    /\ relationships[i] # NoRow
    /\ relationships' = [relationships EXCEPT ![i] = NoRow]
    /\ UNCHANGED <<traders, submitted>>
    /\ UNCHANGED nonApprVars

ActiveRels == {i \in RelIds : relationships[i] # NoRow /\ relationships[i].is_active}

\* a Fill of the master: replicateTrade finds the active relationships and calls
\* replicateToUser for each; the calls of `skips` end without an order, the others
\* submit one.  Neither function reads the traders table.
ApprFill(skips) ==
    /\ ActiveRels # {}
    /\ skips \subseteq ActiveRels
    /\ submitted' = submitted \cup
           {[wallet |-> relationships[i].user_wallet,
             approved |-> traders[relationships[i].user_wallet] = "approved"] :
            i \in ActiveRels \ skips}
    /\ UNCHANGED <<traders, relationships>>
    /\ UNCHANGED nonApprVars

ApprNext ==
    \/ \E w \in CopierWallets : CopyRequest(w) \/ AdminApprove(w) \/ AdminDeny(w)
    \/ \E i \in RelIds, w \in CopierWallets : CopyCreate(i, w)
    \/ \E i \in RelIds, active \in BOOLEAN : RelUpdate(i, active)
    \/ \E i \in RelIds : RelDelete(i)
    \/ \E skips \in SUBSET RelIds : ApprFill(skips)

(***************************************************************************)
(* replicateTrade and the relationships table: which relationships a Fill   *)
(* is replicated to (validation.ts:1054-1086), while the endpoints create,  *)
(* update and delete rows (261-634).                                        *)
(***************************************************************************)
NoMasterRow == [master_wallet |-> "", is_active |-> FALSE]

LoadInit ==
    /\ copyRelationships = [i \in RelIds |-> NoMasterRow]
    /\ loadPc = "idle"
    /\ trader = ""
    /\ loaded = {}
    /\ tableAtLoad = [i \in RelIds |-> NoMasterRow]
    /\ pendingCalls = {}
    /\ clientCalls = {}

\* POST /api/copy/create: a row for master m, active
RowCreate(i, m) ==
    /\ copyRelationships[i] = NoMasterRow
    /\ copyRelationships' = [copyRelationships EXCEPT
                                ![i] = [master_wallet |-> m, is_active |-> TRUE]]
    /\ UNCHANGED <<loadPc, trader, loaded, tableAtLoad, pendingCalls, clientCalls>>
    /\ UNCHANGED nonLoadVars

\* PATCH /api/copy/relationships/:id with is_active in the body
RowSetActive(i, active) ==
    /\ copyRelationships[i] # NoMasterRow
    /\ copyRelationships' = [copyRelationships EXCEPT ![i].is_active = active]
    /\ UNCHANGED <<loadPc, trader, loaded, tableAtLoad, pendingCalls, clientCalls>>
    /\ UNCHANGED nonLoadVars

\* DELETE /api/copy/relationships/:id
RowDelete(i) ==
    /\ copyRelationships[i] # NoMasterRow
    /\ copyRelationships' = [copyRelationships EXCEPT ![i] = NoMasterRow]
    /\ UNCHANGED <<loadPc, trader, loaded, tableAtLoad, pendingCalls, clientCalls>>
    /\ UNCHANGED nonLoadVars

\* the 'trade' handler: replicateTrade(trade.trader, trade) up to its first await
TradeEvent(w) ==
    /\ loadPc = "idle"
    /\ loadPc' = "prime"
    /\ trader' = w
    /\ loaded' = {}
    /\ clientCalls' = {}
    /\ UNCHANGED <<copyRelationships, tableAtLoad, pendingCalls>>
    /\ UNCHANGED nonLoadVars

\* getMarketInfo returns (it uses fetch, no execution client); findAll is awaited
TradePrimed ==
    /\ loadPc = "prime"
    /\ loadPc' = "query"
    /\ UNCHANGED <<copyRelationships, trader, loaded, tableAtLoad, pendingCalls, clientCalls>>
    /\ UNCHANGED nonLoadVars

findAll_AnyMaster(table, masterWallet) == {i \in RelIds : table[i].is_active}

\* CopyRelationship.findAll({ where: { master_wallet: masterWallet, is_active: true } })
findAll(table, masterWallet) ==
    {i \in RelIds : table[i].master_wallet = masterWallet /\ table[i].is_active}

\* findAll returns: none: return; else a replicateToUser call for every row
TradeLoaded ==
    /\ loadPc = "query"
    /\ LET rows == findAll(copyRelationships, trader)
       IN  /\ loaded' = rows
           /\ pendingCalls' = rows
           /\ loadPc' = IF rows = {} THEN "idle" ELSE "fanout"
    /\ tableAtLoad' = copyRelationships
    /\ UNCHANGED <<copyRelationships, trader, clientCalls>>
    /\ UNCHANGED nonLoadVars

\* what a replicateToUser call asks of its execution clients, by how it ends:
\* before its first read, after its reads without an order, or with the order
CallsOf(how) ==
    CASE how = "skipped" -> {}
      [] how = "noOrder" -> {"getAccountInfo"}
      [] how = "order"   -> {"getAccountInfo", "createMarketOrder"}

\* the replicateToUser call of row i runs to its end
UserCallEnds(i, how) ==
    /\ loadPc = "fanout"
    /\ i \in pendingCalls
    /\ pendingCalls' = pendingCalls \ {i}
    /\ clientCalls' = clientCalls \cup {[rel |-> i, op |-> o] : o \in CallsOf(how)}
    /\ UNCHANGED <<copyRelationships, loadPc, trader, loaded, tableAtLoad>>
    /\ UNCHANGED nonLoadVars

\* Promise.all settles and replicateTrade returns
TradeDone ==
    /\ loadPc = "fanout"
    /\ pendingCalls = {}
    /\ loadPc' = "idle"
    /\ UNCHANGED <<copyRelationships, trader, loaded, tableAtLoad, pendingCalls, clientCalls>>
    /\ UNCHANGED nonLoadVars

LoadNext ==
    \/ \E i \in RelIds, m \in Wallets : RowCreate(i, m)
    \/ \E i \in RelIds, active \in BOOLEAN : RowSetActive(i, active)
    \/ \E i \in RelIds : RowDelete(i)
    \/ \E w \in Wallets : TradeEvent(w)
    \/ TradePrimed
    \/ TradeLoaded
    \/ \E i \in RelIds, how \in {"skipped", "noOrder", "order"} : UserCallEnds(i, how)
    \/ TradeDone

(***************************************************************************)
(* PacificaRestClient.sortKeys and the text sign() signs                    *)
(* (rest-client.ts:61-96).  A JavaScript value is an atom, an array or an   *)
(* object; an object is the sequence of its own properties in the order     *)
(* Object.keys and JSON.stringify enumerate them: keys that are array       *)
(* indices first, in ascending numeric order, then the other keys in the    *)
(* order they were created.                                                 *)
(***************************************************************************)
Atom(text)     == [kind |-> "atom", val |-> <<text>>]
Arr(items)     == [kind |-> "arr", val |-> items]
Obj(props)     == [kind |-> "obj", val |-> props]
EmptyObject    == Obj(<<>>)

\* the keys of the model in the order of Array.prototype.sort(), which
\* compares strings by UTF-16 code units ("10" < "9" < "data")
CodeUnitOrder == <<"10", "9", "data", "side", "type">>
KeyNames == {CodeUnitOrder[i] : i \in DOMAIN CodeUnitOrder}

\* keys that are array indices, and the number each stands for
IsIndexKey(k) == k \in {"9", "10"}
IndexValue(k) == IF k = "9" THEN 9 ELSE 10

\* Object.keys(obj)
ObjectKeys(obj) == [i \in DOMAIN obj.val |-> obj.val[i].key]

\* obj[key]
GetProp(obj, k) == (CHOOSE i \in DOMAIN obj.val : obj.val[i].key = k)

\* where a new property with key k goes in the property order
PropSlot(props, k) ==
    IF IsIndexKey(k)
       THEN 1 + Cardinality({i \in DOMAIN props :
                                IsIndexKey(props[i].key)
                                /\ IndexValue(props[i].key) < IndexValue(k)})
       ELSE Len(props) + 1

\* result[key] = value
SetProp(obj, k, v) ==
    LET props == obj.val
        new   == [key |-> k, value |-> v]
    IN  IF \E i \in DOMAIN props : props[i].key = k
           THEN Obj([i \in DOMAIN props |-> IF props[i].key = k THEN new ELSE props[i]])
           ELSE LET at == PropSlot(props, k)
                IN  Obj(SubSeq(props, 1, at - 1) \o <<new>> \o SubSeq(props, at, Len(props)))

SortedKeys_Unsorted(ks) == ks

\* Object.keys(obj).sort()
SortedKeys(ks) ==
    SelectSeq(CodeUnitOrder, LAMBDA k : \E i \in DOMAIN ks : ks[i] = k)

RECURSIVE sortKeys(_), ReduceKeys(_, _, _)
\* .reduce((result, key) => { result[key] = this.sortKeys(obj[key]); return result }, {})
ReduceKeys(ks, obj, result) ==
    IF ks = <<>> THEN result
    ELSE ReduceKeys(Tail(ks), obj,
                    SetProp(result, Head(ks),
                            sortKeys(obj.val[GetProp(obj, Head(ks))].value)))

\* sortKeys(obj)
sortKeys(v) ==
    IF v.kind = "atom" THEN v
    ELSE IF v.kind = "arr" THEN Arr([i \in DOMAIN v.val |-> sortKeys(v.val[i])])
    ELSE ReduceKeys(SortedKeys(ObjectKeys(v)), v, EmptyObject)

RECURSIVE stringify(_), JoinItems(_), JoinProps(_)
\* the elements of an array, separated by commas
JoinItems(items) ==
    IF items = <<>> THEN <<>>
    ELSE stringify(Head(items))
            \o (IF Len(items) > 1 THEN <<",">> ELSE <<>>) \o JoinItems(Tail(items))

\* the properties of an object as "key":value, separated by commas
JoinProps(props) ==
    IF props = <<>> THEN <<>>
    ELSE <<Head(props).key, ":">> \o stringify(Head(props).value)
            \o (IF Len(props) > 1 THEN <<",">> ELSE <<>>) \o JoinProps(Tail(props))

\* JSON.stringify(value), as the sequence of its tokens
stringify(v) ==
    IF v.kind = "atom" THEN v.val
    ELSE IF v.kind = "arr" THEN <<"[">> \o JoinItems(v.val) \o <<"]">>
    ELSE <<"{">> \o JoinProps(v.val) \o <<"}">>

\* an object built by assigning its keys in the order ins
RECURSIVE BuildObject(_, _, _)
BuildObject(ins, valueOf, result) ==
    IF ins = <<>> THEN result
    ELSE BuildObject(Tail(ins), valueOf, SetProp(result, Head(ins), valueOf[Head(ins)]))

\* sample messages: the keys of the message in an order of creation, a nested
\* object under "data" with its two keys in an order of creation, and an
\* array under "side" with its two elements in an order
NestedOrders == {<<"side", "type">>, <<"type", "side">>}
ArrayOrders  == {<<Atom("x"), Atom("y")>>, <<Atom("y"), Atom("x")>>}
KeyOrders ==
    {ins \in UNION {[1..n -> KeyNames] : n \in 1..MaxKeys} :
        \A i, j \in DOMAIN ins : i # j => ins[i] # ins[j]}
MessageShapes == [ins : KeyOrders, nested : NestedOrders, items : ArrayOrders]

ValuesOf(shape) ==
    [k \in KeyNames |->
        IF k = "data" THEN BuildObject(shape.nested, [n \in KeyNames |-> Atom(n)], EmptyObject)
        ELSE IF k = "side" THEN Arr(shape.items)
        ELSE Atom(k)]

MessageOf(shape) == BuildObject(shape.ins, ValuesOf(shape), EmptyObject)

\* sign(): const sorted = this.sortKeys(message); const compact = JSON.stringify(sorted)
Compact(message) == stringify(sortKeys(message))

CanonInit ==
    /\ signPc = "idle"
    /\ messageA = EmptyObject
    /\ messageB = EmptyObject
    /\ compactA = <<>>
    /\ compactB = <<>>

\* two messages with the same keys are signed
SignBoth(a, b) ==
    /\ signPc = "idle"
    /\ {a.ins[i] : i \in DOMAIN a.ins} = {b.ins[i] : i \in DOMAIN b.ins}
    /\ signPc' = "signed"
    /\ messageA' = MessageOf(a)
    /\ messageB' = MessageOf(b)
    /\ compactA' = Compact(MessageOf(a))
    /\ compactB' = Compact(MessageOf(b))
    /\ UNCHANGED nonCanonVars

\* the signatures are returned
SignReturn ==
    /\ signPc = "signed"
    /\ signPc' = "idle"
    /\ messageA' = EmptyObject
    /\ messageB' = EmptyObject
    /\ compactA' = <<>>
    /\ compactB' = <<>>
    /\ UNCHANGED nonCanonVars

CanonNext ==
    \/ signPc = "idle" /\ \E a \in MessageShapes, b \in MessageShapes : SignBoth(a, b)
    \/ SignReturn

(***************************************************************************)
(* The SIGINT handler (validation.ts:1210-1218) and the replication work    *)
(* that is in flight when it runs.                                          *)
(***************************************************************************)
ProcInit == exited = FALSE

\* the other components, without the feed client and the process
nonFeedProcVars == <<restVars, replVars, fanVars, copVars, quantVars, msgVars, apprVars, opsVars, sizVars, lookVars, loadVars, canonVars, cliVars>>
nonCliVars == <<restVars, feedVars, replVars, fanVars, copVars, quantVars, msgVars, apprVars, opsVars, sizVars, lookVars, loadVars, canonVars, procVars>>

\* process.on('SIGINT'): wsClient.disconnect(), strategyExecutor.stop(),
\* process.exit(0); nothing of the process runs after it
Sigint ==
    /\ ~exited
    /\ shouldReconnect' = FALSE
    /\ pingTimers' = 0
    /\ wsState' = "none"
    /\ exited' = TRUE
    /\ UNCHANGED <<reconnectAttempts, reconnectTimer, maxAttemptsError, delays,
                   activeMasters, activeSubscriptions, passes, sessionSubs, replayed>>
    /\ UNCHANGED <<openedAfterFailure, lastPing, lastFill, lastCalls>>
    /\ UNCHANGED nonFeedProcVars

\* the process runs: Fills arrive and are replicated, rows change
Running == ~exited /\ LoadNext

ShutdownNext ==
    \/ Running
    \/ Sigint

(***************************************************************************)
(* The execution clients of replicateToUser: every call that gets past the  *)
(* decryption constructs a PacificaRestClient (validation.ts:888), whose    *)
(* constructor sets the 60000 ms interval and starts processQueue           *)
(* (rest-client.ts:45-59).  The class has no method that clears the         *)
(* interval or ends the loop.                                               *)
(***************************************************************************)
CliInit == userClients = <<>>

ClientIds == 1..MaxClients
Made(c) == c <= Len(userClients)

\* the request of the call is on the queue of its client
CallQueued(c) == userClients[c].pc \in {"balanceQueued", "orderQueued"}

\* replicateToUser: new PacificaRestClient(...), then the balance read is queued
NewUserClient ==
    /\ Len(userClients) < MaxClients
    /\ userClients' = Append(userClients,
                             [pc |-> "balanceQueued", loop |-> "check", rpm |-> 0,
                              interval |-> TRUE])
    /\ UNCHANGED nonCliVars

\* processQueue of client c: shift, count, hand to fetch
ClientDispatch(c) ==
    /\ Made(c)
    /\ userClients[c].loop = "check"
    /\ CallQueued(c)
    /\ userClients[c].rpm < maxRequestsPerMinute
    /\ userClients' = [userClients EXCEPT
                          ![c].loop = "fetch",
                          ![c].rpm = @ + 1,
                          ![c].pc = IF @ = "balanceQueued" THEN "balanceFetch"
                                                            ELSE "orderFetch"]
    /\ UNCHANGED nonCliVars

\* processQueue of client c: the queue is empty, await the 100 ms timeout
ClientIdle(c) ==
    /\ Made(c)
    /\ userClients[c].loop = "check"
    /\ ~CallQueued(c)
    /\ userClients' = [userClients EXCEPT ![c].loop = "sleep"]
    /\ UNCHANGED nonCliVars

\* processQueue of client c: the 100 ms timeout fires, while (true) goes round
ClientWake(c) ==
    /\ Made(c)
    /\ userClients[c].loop = "sleep"
    /\ userClients' = [userClients EXCEPT ![c].loop = "check"]
    /\ UNCHANGED nonCliVars

\* the answer of the dispatched request settles its promise (resolve, or reject
\* and continue) and the loop goes on to its next check
ClientFetchSettles(c) ==
    /\ Made(c)
    /\ userClients[c].loop = "fetch"
    /\ userClients' = [userClients EXCEPT
                          ![c].loop = "check",
                          ![c].pc = IF @ = "balanceFetch" THEN "balanceDone"
                                                          ELSE "ended"]
    /\ UNCHANGED nonCliVars

\* the call resumes after its await, once the loop has yielded: after the
\* balance read it queues its order or ends
CallGoesOn(c, eligible) ==
    /\ Made(c)
    /\ userClients[c].pc = "balanceDone"
    /\ userClients[c].loop = "sleep"
    /\ userClients' = [userClients EXCEPT
                          ![c].pc = IF eligible THEN "orderQueued" ELSE "ended"]
    /\ UNCHANGED nonCliVars

\* the setInterval callback of client c: this.requestsPerMinute = 0
ClientTick(c) ==
    /\ Made(c)
    /\ userClients[c].interval
    /\ userClients[c].rpm # 0
    /\ userClients' = [userClients EXCEPT ![c].rpm = 0]
    /\ UNCHANGED nonCliVars

CliNext ==
    \/ NewUserClient
    \/ \E c \in ClientIds : ClientDispatch(c)
    \/ \E c \in ClientIds : ClientIdle(c)
    \/ \E c \in ClientIds : ClientWake(c)
    \/ \E c \in ClientIds : ClientFetchSettles(c)
    \/ \E c \in ClientIds, eligible \in BOOLEAN : CallGoesOn(c, eligible)
    \/ \E c \in ClientIds : ClientTick(c)

\* Fills keep arriving, timers fire and every fetch returns
CliFairness ==
    /\ WF_vars(NewUserClient)
    /\ \A c \in ClientIds :
          /\ WF_vars(ClientDispatch(c))
          /\ WF_vars(ClientIdle(c))
          /\ WF_vars(ClientWake(c))
          /\ WF_vars(ClientFetchSettles(c))
          /\ WF_vars(\E eligible \in BOOLEAN : CallGoesOn(c, eligible))
          /\ WF_vars(ClientTick(c))

(***************************************************************************)
(* The exposed operations of PacificaRestClient (rest-client.ts:159-374).   *)
(* Every operation is an async function: what its body throws settles the   *)
(* promise it returns as rejected.  A call gives back "pending" (the        *)
(* promise of queueRequest), "rejected", or "threw" (an exception at the    *)
(* call site).                                                              *)
(***************************************************************************)
WriteOps == {"createMarketOrder", "createLimitOrder", "cancelOrder"}
ReadOps == {"getAccountInfo", "getPositions", "getOpenOrders"}
NoKeys == [publicKey |-> FALSE, privateKey |-> FALSE]
NoCallYet == [op |-> "", result |-> "none", pushed |-> FALSE]

requiresAuth_Either(k) == k.publicKey \/ k.privateKey

\* rest-client.ts:73-75  !!(this.publicKey && this.privateKey)
requiresAuth(k) == k.publicKey /\ k.privateKey

\* the body of a write operation up to its return: the guard, the derivation of
\* the agent key and sign() throw without the key they need
WriteBody(k) ==
    IF ~requiresAuth(k) THEN "throw"
    ELSE IF ~k.privateKey THEN "throw"
    ELSE "queueRequest"

\* an async function: a throw in the body is the rejection of the returned promise
AsyncResult(body) == IF body = "throw" THEN "rejected" ELSE "pending"

OpsInit ==
    /\ opsPc = "new"
    /\ keys = NoKeys
    /\ opsQueue = <<>>
    /\ lastCall = NoCallYet

\* constructor(apiUrl, publicKey?, privateKeyB58?)
Construct(publicKey, privateKeyB58) ==
    /\ opsPc = "new"
    /\ opsPc' = "ready"
    /\ keys' = [publicKey |-> publicKey, privateKey |-> privateKeyB58]
    /\ UNCHANGED <<opsQueue, lastCall>>
    /\ UNCHANGED nonOpsVars

\* createMarketOrder, createLimitOrder, cancelOrder
WriteOp(op) ==
    /\ opsPc = "ready"
    /\ Len(opsQueue) < MaxQueued
    /\ LET body == WriteBody(keys)
       IN  /\ opsQueue' = IF body = "queueRequest"
                          THEN Append(opsQueue, [op |-> op, signed |-> TRUE])
                          ELSE opsQueue
           /\ lastCall' = [op |-> op, result |-> AsyncResult(body),
                           pushed |-> body = "queueRequest"]
    /\ UNCHANGED <<opsPc, keys>>
    /\ UNCHANGED nonOpsVars

\* getAccountInfo, getPositions, getOpenOrders: queueRequest of a GET without body
ReadOp(op) ==
    /\ opsPc = "ready"
    /\ Len(opsQueue) < MaxQueued
    /\ opsQueue' = Append(opsQueue, [op |-> op, signed |-> FALSE])
    /\ lastCall' = [op |-> op, result |-> AsyncResult("queueRequest"), pushed |-> TRUE]
    /\ UNCHANGED <<opsPc, keys>>
    /\ UNCHANGED nonOpsVars

\* processQueue: this.requestQueue.shift()
OpsShift ==
    /\ opsPc = "ready"
    /\ opsQueue # <<>>
    /\ opsQueue' = Tail(opsQueue)
    /\ UNCHANGED <<opsPc, keys, lastCall>>
    /\ UNCHANGED nonOpsVars

OpsNext ==
    \/ \E publicKey \in BOOLEAN, privateKeyB58 \in BOOLEAN : Construct(publicKey, privateKeyB58)
    \/ \E op \in WriteOps : WriteOp(op)
    \/ \E op \in ReadOps : ReadOp(op)
    \/ OpsShift

(***************************************************************************)
(* The sizing fields in POST /api/copy/create (validation.ts:272-306) and   *)
(* PATCH /api/copy/relationships/:id (466-506).  A sizing value is the      *)
(* number parseFloat gave, carried in thousandths.  The other validations   *)
(* of the two endpoints are inputs that passed.                             *)
(***************************************************************************)
validMethods == {"multiplier", "fixed_usd", "balance_percent"}
MethodInputs == validMethods \cup {"undefined", "martingale"}
NotGiven == [given |-> FALSE, n |-> 0]
\* sizing_value of the body: absent, or one of
\* 0.005, 0.01, 0.5, 2, 2.001, 9.999, 10, 100, 100.001
ValueInputs ==
    {NotGiven} \cup
    [given : {TRUE}, n : {5, 10, 500, 2000, 2001, 9999, 10000, 100000, 100001}]
NoSizing == [exists |-> FALSE, sizing_method |-> "", sizing_value |-> 0]

\* the switch on the method: TRUE where a case returns status 400
SizingRejected(method, value) ==
    CASE method = "multiplier"      -> value < 10 \/ value > 2000
      [] method = "fixed_usd"       -> value < 10000
      [] method = "balance_percent" -> value < 1000 \/ value > 100000
      [] OTHER -> FALSE

SizInit ==
    /\ row = NoSizing
    /\ rowBefore = NoSizing
    /\ status = 0

\* POST /api/copy/create
SizingCreate(sizing_method, sizing_value) ==
    /\ ~row.exists
    /\ rowBefore' = row
    /\ LET method == IF sizing_method = "undefined" THEN "multiplier" ELSE sizing_method
           value  == IF ~sizing_value.given THEN 500 ELSE sizing_value.n
       IN  IF method \notin validMethods \/ SizingRejected(method, value) THEN
               /\ status' = 400
               /\ row' = row
           ELSE
               /\ status' = 201
               /\ row' = [exists |-> TRUE, sizing_method |-> method, sizing_value |-> value]
    /\ UNCHANGED nonSizVars

\* PATCH /api/copy/relationships/:id: the fields are set on the loaded instance one
\* after the other and saved at the end; a 400 returns before the save
SizingPatch(sizing_method, sizing_value) ==
    /\ row.exists
    /\ rowBefore' = row
    /\ LET method == IF sizing_method = "undefined" THEN row.sizing_method ELSE sizing_method
       IN  IF sizing_method # "undefined" /\ sizing_method \notin validMethods THEN
               /\ status' = 400
               /\ row' = row
           ELSE IF sizing_value.given /\ SizingRejected(method, sizing_value.n) THEN
               /\ status' = 400
               /\ row' = row
           ELSE
               /\ status' = 200
               /\ row' = [exists |-> TRUE, sizing_method |-> method,
                          sizing_value |-> IF sizing_value.given
                                           THEN sizing_value.n
                                           ELSE row.sizing_value]
    /\ UNCHANGED nonSizVars

\* DELETE /api/copy/relationships/:id
SizingDelete ==
    /\ row.exists
    /\ rowBefore' = row
    /\ row' = NoSizing
    /\ status' = 200
    /\ UNCHANGED nonSizVars

SizNext ==
    \/ \E m \in MethodInputs, v \in ValueInputs : SizingCreate(m, v)
    \/ \E m \in MethodInputs, v \in ValueInputs : SizingPatch(m, v)
    \/ SizingDelete

Init ==
    /\ CliInit /\ ProcInit /\ CanonInit /\ LoadInit /\ LookInit /\ RestInit /\ FeedInit /\ ReplInit /\ FanInit /\ CopInit /\ QuantInit
    /\ MsgInit /\ ApprInit /\ OpsInit /\ SizInit

RestSpec == Init /\ [][RestNext]_vars

\* the transport answers every call it was handed, in one of the five ways
FetchReturns == FetchOk \/ Fetch429Retry \/ Fetch429Reject \/ FetchHttpError \/ FetchThrows

\* processQueue runs for ever and its timeouts fire, the 60000 ms interval keeps
\* firing, and every fetch returns
RestFairness ==
    /\ WF_vars(Dispatch)
    /\ WF_vars(Idle)
    /\ WF_vars(Wake)
    /\ WF_vars(RetryRequeue)
    /\ WF_vars(RateTick)
    /\ WF_vars(FetchReturns)

RestLiveSpec == Init /\ [][RestNext]_vars /\ RestFairness

FeedSpec == Init /\ [][FeedNext]_vars

\* the session opens and stays open while relationships change and passes are
\* started by the 'connected' event (OnOpen), by the 60000 ms interval and by
\* the relationship endpoints (PassStart)
ReconcileNext ==
    \/ Connect
    \/ OnOpen
    \/ \E w \in Wallets : ChangeRelationships(w)
    \/ PassStart
    \/ \E p \in PassSlots : PassResume(p)
    \/ \E p \in PassSlots : PassFails(p)

\* the 60000 ms interval of startServer keeps starting passes, every read of
\* the store returns or throws, and the store does not fail every read of a
\* pass for ever
ReconcileFairness ==
    /\ WF_vars(PassStart)
    /\ \A p \in PassSlots : SF_vars(PassResume(p))
    /\ \A p \in PassSlots : WF_vars(PassResume(p) \/ PassFails(p))

ReconcileLiveSpec == Init /\ [][ReconcileNext]_vars /\ ReconcileFairness

SessionSpec == Init /\ [][SessionNext]_vars

ReplSpec == Init /\ [][ReplNext]_vars

FanSpec == Init /\ [][FanNext]_vars

CopierSpec == Init /\ [][CopNext]_vars

QuantSpec == Init /\ [][QuantNext]_vars

MsgSpec == Init /\ [][MsgNext]_vars

ApprovalSpec == Init /\ [][ApprNext]_vars

OpsSpec == Init /\ [][OpsNext]_vars

SizingSpec == Init /\ [][SizNext]_vars

CacheSpec == Init /\ [][LookNext]_vars

LoadSpec == Init /\ [][LoadNext]_vars

CanonSpec == Init /\ [][CanonNext]_vars

ShutdownSpec == Init /\ [][ShutdownNext]_vars

ClientsLiveSpec == Init /\ [][CliNext]_vars /\ CliFairness

\* every awaited call of a replicateToUser call settles, the store answers, and the
\* dispatcher of publicRestClient runs as in RestLiveSpec
FanFairness ==
    /\ RestFairness
    /\ WF_vars(FanPrimed)
    /\ WF_vars(FanQueryFails \/ \E rels \in SUBSET Copiers, start \in [Copiers -> StartKinds],
                   exposure \in [Copiers -> BOOLEAN] : FanQuery(rels, start, exposure))
    /\ \A c \in Copiers : WF_vars(CallStep(c))
    /\ WF_vars(FanComplete)

FanLiveSpec == Init /\ [][FanNext]_vars /\ FanFairness

(***************************************************************************)
(* Properties                                                              *)
(***************************************************************************)

\* C1: between two consecutive resets of the rate counter the dispatcher hands
\* at most 90 requests to the transport, retried requests included.
C1_RateCeiling == windowDispatches <= maxRequestsPerMinute

\* C1 witness: the budget of the window is used up and a request that was put
\* back after a 429 is held in the queue.
C1_Witness ==
    /\ windowDispatches = maxRequestsPerMinute
    /\ loop = "sleep"
    /\ Len(requestQueue) > 0
    /\ requestQueue[1].retryCount = 1

\* what C2 says of every reachable state
RetryInvariant ==
    /\ \A i \in ReqIds :
          /\ dispatches[i] <= 2
          /\ future[i] = "rejected429" => dispatches[i] = 2 /\ waited[i] = RetryDelayMs
          /\ (waited[i] # 0 /\ future[i] \notin {"none", "pending"}) => dispatches[i] = 2
    /\ \A k \in 1..Len(requestQueue) :
          /\ requestQueue[k].retryCount <= 1
          /\ requestQueue[k].retryCount = 1 =>
                /\ dispatches[requestQueue[k].id] = 1
                /\ waited[requestQueue[k].id] = RetryDelayMs
                /\ future[requestQueue[k].id] = "pending"
    /\ (loop = "fetch" /\ current.retryCount = 1) => dispatches[current.id] = 2
    /\ loop = "retryWait" => timerMs = RetryDelayMs /\ dispatches[current.id] = 1

\* C2: a request answered 429 is put back once, after the 1000 ms wait, and is
\* dispatched a second time; a second 429 rejects its future with the
\* rate-limit error; no request is dispatched a third time.
C2_RetryOnce ==
    /\ []RetryInvariant
    /\ \A i \in ReqIds :
          (loop = "retryWait" /\ current.id = i) ~> (dispatches[i] = 2)

\* C2 witness: a request was answered 429 twice and its future is rejected.
C2_Witness ==
    \E i \in ReqIds : future[i] = "rejected429" /\ dispatches[i] = 2

\* C3: the k-th consecutive reconnect attempt is scheduled with delay
\* 1000 * 2^(k-1) ms for k = 1..10, and the close after the 10th failed attempt
\* schedules nothing.
C3_Backoff ==
    /\ Len(delays) <= maxReconnectAttempts
    /\ \A k \in 1..Len(delays) : delays[k] = 1000 * Pow2(k - 1)
    /\ reconnectTimer # 0 => Len(delays) >= 1 /\ reconnectTimer = delays[Len(delays)]
    /\ maxAttemptsError =>
          /\ reconnectTimer = 0
          /\ wsState \in {"closed", "none"}
          /\ Len(delays) = maxReconnectAttempts

\* C3 witness: ten attempts were scheduled, the last with 512000 ms, and the
\* eleventh close ended in the terminal error.
C3_Witness ==
    /\ maxAttemptsError
    /\ Len(delays) = 10
    /\ delays[10] = 512000
    /\ reconnectTimer = 0

\* C4: once the pass started by the open of the current session has ended, every
\* wallet of the SubscriptionSet has been subscribed on the current session.
C4_ReplayOnOpen ==
    (wsState = "open" /\ replayed) => activeSubscriptions \subseteq sessionSubs

\* the notional of the submitted order: the amount the exchange reads from the
\* order's amount text, times the fill price
OrderNotional == RMul(ParseDecimal(order.amount), trade.price)

Submitted == order # NoOrder

\* C5: with a non-empty symbol allow-list, an order is submitted only for a Fill
\* whose symbol is a member of the list, and it is an order for that symbol.
C5_AllowList ==
    (Submitted /\ rel.symbols # {}) =>
        (trade.symbol \in rel.symbols /\ order.symbol = trade.symbol)

\* C5 witness: an order was submitted for a relationship with an allow-list.
C5_Witness == Submitted /\ rel.symbols = {"BTC"} /\ order.symbol = "BTC"

\* C6: no order with an amount <= 0 is submitted; an amount that is <= 0 after
\* the first rounding, or after the leverage clamp and second rounding, ends
\* the call without an order.
C6_PositiveAmount ==
    /\ Submitted => RLt(Zero, ParseDecimal(order.amount))
    /\ rpc \in {"balance2", "positions", "order"} => RLt(Zero, copierAmount)
    /\ outcome \in {"belowLot", "belowLotAfterLeverage"} =>
          ~Submitted /\ RLeq(copierAmount, Zero)

\* C6 witness: the leverage clamp and second rounding brought the amount to 0
\* and the call ended without an order.
C6_Witness ==
    /\ outcome = "belowLotAfterLeverage"
    /\ rel.custom_leverage # Zero
    /\ copierAmount = Zero
    /\ ~Submitted

\* C7: an order is submitted only if its notional is at most the available
\* balance read for the copier; a call that ends for insufficient balance has
\* submitted nothing.
C7_BalanceCovers ==
    /\ Submitted => RLeq(OrderNotional, available)
    /\ outcome = "insufficientBalance" => ~Submitted

\* C7 witness: the amount survived both roundings, its notional exceeded the
\* balance that was read, and the call ended without an order.
C7_Witness ==
    /\ outcome = "insufficientBalance"
    /\ RLt(available, RMul(copierAmount, trade.price))
    /\ ~Submitted

\* C8: with a max-total-exposure limit set, an order is submitted only if the
\* notional of the copier's open positions plus the order's notional is at most
\* the limit, whatever the positions read returned.
C8_ExposureLimit ==
    (Submitted /\ rel.max_total_exposure # Zero) =>
        RLeq(RAdd(TotalExposure(positionsResp.positions), OrderNotional),
             rel.max_total_exposure)

\* C9: with a position cap set, the notional of a submitted order is at most
\* the cap.
C9_PositionCap ==
    (Submitted /\ rel.max_position_cap # Zero) =>
        RLeq(OrderNotional, rel.max_position_cap)

\* C9 witness: the sized amount exceeded the cap and the submitted order's
\* notional is exactly the cap.
C9_Witness ==
    /\ Submitted
    /\ rel.max_position_cap # Zero
    /\ rel.sizing.method = "fixed_usd"
    /\ rel.custom_leverage # Zero
    /\ OrderNotional = rel.max_position_cap

\* C10: side and reduce-only of a submitted order follow the Fill's trade-side
\* tag: open_long -> bid/false, close_short -> bid/true, close_long -> ask/true,
\* open_short -> ask/false; any other tag gives no order.
C10_SideMapping ==
    Submitted =>
        \/ trade.side = "open_long"   /\ order.side = "bid" /\ order.reduce_only = FALSE
        \/ trade.side = "close_short" /\ order.side = "bid" /\ order.reduce_only = TRUE
        \/ trade.side = "close_long"  /\ order.side = "ask" /\ order.reduce_only = TRUE
        \/ trade.side = "open_short"  /\ order.side = "ask" /\ order.reduce_only = FALSE

\* C10 witness: a close_long Fill produced an ask, reduce-only order.
C10_Witness ==
    /\ Submitted
    /\ trade.side = "close_long"
    /\ order.side = "ask"
    /\ order.reduce_only = TRUE

\* what C11 says of every reachable state: no error leaves replicateToUser or
\* replicateTrade, and a call that ended without a failure or skip of its own
\* has submitted its order
IsolationInvariant ==
    /\ callRejected = {}
    /\ ~tradeRejected
    /\ \A c \in Copiers :
          (calls[c].pc = "done" /\ calls[c].own = "ok") => calls[c].submitted

\* C11: for one Fill fanned out to several relationships, no error escapes
\* replicateToUser or replicateTrade, and whatever fails in the other
\* relationships (decryption, balance or positions read, order), every started
\* call runs to its end, where it has submitted its order unless a failure or
\* skip of its own stopped it.
C11_FailureIsolation ==
    /\ []IsolationInvariant
    /\ \A c \in Copiers : (calls[c].pc \notin {"idle", "done"}) ~> (calls[c].pc = "done")

\* C11 witness: the positions read of c1 was rejected and ended its call without
\* an order, and c2, whose positions read went through the same client, has
\* submitted its order.
C11_Witness ==
    /\ calls["c1"].pc = "done"
    /\ calls["c1"].own = "positions"
    /\ calls["c1"].exposure
    /\ ~calls["c1"].submitted
    /\ calls["c2"].exposure
    /\ calls["c2"].submitted

\* C12: of two Fills of one master delivered in order, the order derived from the
\* first is handed to the exchange before the order derived from the second, for
\* a copier that orders on both.
C12_FillOrder == ~inverted

\* C20: within one 60000 ms window at most 90 requests are dispatched to the
\* exchange on behalf of one copier account, over all the Fills replicated for it.
C20_CopierCeiling == copierDispatches <= maxRequestsPerMinute

\* the positions read of copier c waits on the queue of publicRestClient
Queued(c) == \E k \in 1..Len(requestQueue) : reqOf[requestQueue[k].id] = c

\* the dispatcher of publicRestClient is suspended on the fetch, or on the 429
\* delay, of the positions read of copier c
Awaited(c) == loop \in {"fetch", "retryWait"} /\ current.id \in ReqIds /\ reqOf[current.id] = c

\* C13: no relationship blocks another: while the REST call of one relationship is
\* pending, slow or waiting out its 429 delay, the call of no other relationship
\* of the Fill is held back behind it.
C13_NoBlocking ==
    \A a \in Copiers, b \in Copiers : ~(a # b /\ Awaited(a) /\ Queued(b))

\* C14: rounding down to the lot size never increases the amount, gives an
\* integer multiple of the lot size, and rounding the rounded amount again
\* leaves it as it is.
C14_Quantization ==
    /\ qpc \in {"rounded", "rounded2"} =>
          /\ FLeq(q1, qx)
          /\ \E k \in 0..MaxHundredths : q1 = FMulInt(LOfInt(k), qlot)
    /\ qpc = "rounded2" => q2 = q1

\* the base amount the sizing rules prescribe
ExpectedBase ==
    CASE rel.sizing.method = "multiplier" -> RMul(trade.amount, rel.sizing.value)
      [] rel.sizing.method = "fixed_usd"  -> RDiv(rel.sizing.value, trade.price)
      [] rel.sizing.method = "balance_percent" ->
             RDiv(RDiv(RMul(sizingBalance, rel.sizing.value), Rat(100, 1)), trade.price)
      [] OTHER -> Zero

\* C15: the amount before the per-symbol multiplier and the clamps is
\* fillAmount x value for multiplier sizing, value / fillPrice for fixed_usd,
\* (availableBalance x value / 100) / fillPrice for balance_percent; with any
\* other sizing method no order is submitted.
C15_BaseSizing ==
    /\ (rpc \in {"market", "balance2", "positions", "order"} \/ Submitted) =>
          /\ rel.sizing.method \in {"multiplier", "fixed_usd", "balance_percent"}
          /\ baseAmount = ExpectedBase
    /\ outcome = "unknownMethod" => ~Submitted /\ baseAmount = Zero

\* C15 witness: balance_percent sizing of 50 percent of a balance of 1000 at
\* price 50000 gave the base amount 0.01, and the order was submitted.
C15_Witness ==
    /\ Submitted
    /\ rel.sizing.method = "balance_percent"
    /\ sizingBalance = Rat(1000, 1)
    /\ trade.price = Rat(50000, 1)
    /\ baseAmount = Rat(1, 100)

\* the records of the frame that are fills, in the order of the frame
FillRecords(f) ==
    IF f.json /\ f.channel = "account_trades" /\ f.data.present
    THEN SelectSeq(f.data.records, LAMBDA t : t.te = "fulfill_maker" \/ t.te = "fulfill_taker")
    ELSE <<>>

C17_OnlyApproved == \A o \in submitted : o.approved

\* C18: a write operation on a client without both keys gives back a rejected
\* promise and enqueues no request, and no operation throws at the call site;
\* a read operation is enqueued, unsigned, whatever the keys.
C18_WritesNeedKeys ==
    /\ lastCall.result # "threw"
    /\ (lastCall.op \in WriteOps /\ ~(keys.publicKey /\ keys.privateKey)) =>
          lastCall.result = "rejected" /\ ~lastCall.pushed
    /\ \A k \in 1..Len(opsQueue) :
          opsQueue[k].op \in WriteOps => keys.publicKey /\ keys.privateKey
    /\ lastCall.op \in ReadOps => lastCall.result = "pending" /\ lastCall.pushed
    /\ \A k \in 1..Len(opsQueue) : opsQueue[k].op \in ReadOps => ~opsQueue[k].signed

\* C18 witness: on a client with a private key and no public key a positions
\* read is waiting in the queue and a market order was refused.
C18_Witness ==
    /\ keys = [publicKey |-> FALSE, privateKey |-> TRUE]
    /\ opsQueue = <<[op |-> "getPositions", signed |-> FALSE]>>
    /\ lastCall = [op |-> "createMarketOrder", result |-> "rejected", pushed |-> FALSE]

Settled == {"resolved", "rejected429", "rejectedHttp", "rejectedError"}

\* a request waiting in the queue has not been settled, whatever the budget
QueuedStayPending ==
    \A k \in 1..Len(requestQueue) : future[requestQueue[k].id] = "pending"

\* C19: requests enqueued beyond the remaining budget of the window stay
\* queued instead of being rejected, and every enqueued request is eventually
\* dispatched and its promise settled, provided the 60000 ms interval keeps
\* firing and every fetch returns.
C19_EventuallySettled ==
    /\ []QueuedStayPending
    /\ \A i \in ReqIds :
          (future[i] = "pending") ~> (future[i] \in Settled /\ dispatches[i] >= 1)

\* C19 witness: the budget of the window is used up and the queue holds as many
\* requests as can be alive, none of them dispatched yet, all of them pending.
C19_Witness ==
    /\ requestsPerMinute = maxRequestsPerMinute
    /\ Len(requestQueue) = MaxReq
    /\ \A k \in 1..Len(requestQueue) :
          /\ requestQueue[k].retryCount = 0
          /\ dispatches[requestQueue[k].id] = 0
          /\ future[requestQueue[k].id] = "pending"

\* the valid range of each sizing method, in thousandths
InValidRange(method, value) ==
    CASE method = "multiplier"      -> 10 <= value /\ value <= 2000
      [] method = "fixed_usd"       -> 10000 <= value
      [] method = "balance_percent" -> 1000 <= value /\ value <= 100000
      [] OTHER -> FALSE

\* C21: after any sequence of create and update requests the stored
\* relationship has a sizing value inside the valid range of its current
\* sizing method, and a rejected request leaves the stored relationship as it
\* was.
C21_SizingInRange ==
    /\ row.exists => InValidRange(row.sizing_method, row.sizing_value)
    /\ status = 400 => row = rowBefore

\* a request that is waiting for its retry is at the front of the queue
RetryFirst ==
    \A k \in 1..Len(requestQueue) : requestQueue[k].retryCount >= 1 => k = 1

\* what a step does to the queue: a new request goes behind all that are queued,
\* a dispatch takes the front, a retried request goes in front of all that are
\* queued, and no other step touches the queue
QueueDiscipline ==
    LET enqueued   == {i \in ReqIds : future[i] # "pending" /\ future'[i] = "pending"}
        dispatched == {i \in ReqIds : dispatches'[i] = dispatches[i] + 1}
        requeued   == loop = "retryWait" /\ loop' # "retryWait"
    IN  /\ \A i \in enqueued :
              requestQueue' = Append(requestQueue, [id |-> i, retryCount |-> 0])
        /\ \A i \in dispatched :
              /\ requestQueue # <<>>
              /\ Head(requestQueue).id = i
              /\ requestQueue' = Tail(requestQueue)
        /\ requeued =>
              /\ requestQueue' # <<>>
              /\ Head(requestQueue').id = current.id
              /\ Head(requestQueue').retryCount = current.retryCount + 1
              /\ Tail(requestQueue') = requestQueue
        /\ (enqueued = {} /\ dispatched = {} /\ ~requeued) => requestQueue' = requestQueue

\* C22: the requests of a client are dispatched in the order they were
\* enqueued, except that a request retried after a 429 is the next one
\* dispatched, ahead of the requests already queued and of those enqueued
\* during the retry delay.
C22_FifoRetryFirst == [][QueueDiscipline]_vars /\ []RetryFirst

\* C22 witness: a request is dispatched for the second time, after its retry
\* delay of 1000 ms, while another request is waiting in the queue.
C22_Witness ==
    /\ loop = "fetch"
    /\ current.retryCount = 1
    /\ waited[current.id] = RetryDelayMs
    /\ Len(requestQueue) >= 1
    /\ requestQueue[1].retryCount = 0

ErrorRejections == {"rejectedHttp", "rejectedError"}

\* a request rejected for an HTTP error or a transport error is out of the queue
\* and was dispatched once, or twice if a 429 had sent it through the retry before
RejectedOnce ==
    \A i \in ReqIds :
        future[i] \in ErrorRejections =>
            /\ ~InFlight(i)
            /\ dispatches[i] = IF waited[i] = 0 THEN 1 ELSE 2

\* the promise is rejected in the step that takes the answer, which leaves the
\* queue as it is, and a rejected request is not dispatched again
RejectedAtOnce ==
    \A i \in ReqIds :
        /\ (future[i] = "pending" /\ future'[i] \in ErrorRejections) =>
              /\ loop = "fetch" /\ current.id = i
              /\ requestQueue' = requestQueue
        /\ (future[i] \in ErrorRejections /\ future'[i] = future[i]) =>
              dispatches'[i] = dispatches[i]

OpenMeansReset == wsState = "open" => reconnectAttempts = 0 /\ delays = <<>>

\* an unexpected close of an open session schedules the first reconnect
FirstDelayAfterOpen ==
    (wsState = "open" /\ wsState' = "closed" /\ shouldReconnect) =>
        /\ reconnectTimer' = baseReconnectDelay
        /\ reconnectAttempts' = 1
        /\ ~maxAttemptsError'

\* the terminal error comes only after ten attempts since the last open
TenAttemptsSinceOpen == maxAttemptsError => Len(delays) = maxReconnectAttempts

\* C24: a successful open resets the reconnect attempt counter: after failed
\* attempts followed by an open, the next unexpected close schedules a
\* reconnect after 1000 ms, and ten attempts are available again before the
\* terminal state.
C24_OpenResetsAttempts ==
    /\ []OpenMeansReset
    /\ [][FirstDelayAfterOpen]_vars
    /\ []TenAttemptsSinceOpen

\* C24 witness: the session opened after a failed reconnect attempt, then
\* closed, and the reconnect is scheduled after 1000 ms as attempt 1.
C24_Witness ==
    /\ openedAfterFailure
    /\ wsState = "closed"
    /\ shouldReconnect
    /\ reconnectTimer = baseReconnectDelay
    /\ reconnectAttempts = 1
    /\ delays = <<baseReconnectDelay>>

\* in the terminal state there is no socket in use, no reconnect pending, and
\* no 'trade' event was emitted since it was entered
FailedIsQuiet ==
    maxAttemptsError =>
        /\ wsState \in {"closed", "none"}
        /\ reconnectTimer = 0
        /\ lastFill # "afterFailure"

\* a close with no attempt left reports the error, and once the error is
\* reported no step opens a socket, schedules a reconnect or emits a 'trade'
FailedIsFinal ==
    /\ (wsState \in {"connecting", "open"} /\ wsState' = "closed" /\ shouldReconnect
          /\ reconnectAttempts >= maxReconnectAttempts) => maxAttemptsError'
    /\ maxAttemptsError =>
          /\ maxAttemptsError'
          /\ wsState' \in {"closed", "none"}
          /\ reconnectTimer' = 0
          /\ lastFill' = lastFill

\* C25: once the reconnect cap is exceeded the subscriber is in a terminal
\* state: the error is reported, and from then on no connection attempt is
\* made and no Fill is emitted, whatever events follow.
C25_TerminalFailure == []FailedIsQuiet /\ [][FailedIsFinal]_vars

\* C25 witness: the terminal error was reported on a session that had emitted
\* Fills, and a disconnect() followed it.
C25_Witness ==
    /\ maxAttemptsError
    /\ reconnectAttempts = maxReconnectAttempts
    /\ lastFill = "live"
    /\ ~shouldReconnect
    /\ wsState = "none"

\* a step that changes what is subscribed on the socket, without changing the
\* socket, is taken while the socket is open
WrittenWhileOpen ==
    (sessionSubs' # sessionSubs /\ wsState' = wsState) => wsState = "open"

\* nothing has been written on a socket that is still connecting
ConnectingIsSilent == wsState = "connecting" => sessionSubs = {}

\* C26: a subscribe or unsubscribe command is written to the feed only while
\* the session is open; a call made while the session is connecting, closed
\* or absent sends nothing.
C26_WritesOnlyWhenOpen == [][WrittenWhileOpen]_vars /\ []ConnectingIsSilent

\* C26 witness: a pass made its calls after the session had closed; they were
\* dropped, and a wallet of the SubscriptionSet is not subscribed on the socket.
C26_Witness ==
    /\ lastCalls = "dropped"
    /\ wsState = "closed"
    /\ \A p \in PassSlots : passes[p] = NoPass
    /\ activeSubscriptions \ sessionSubs # {}

\* at most one heartbeat interval runs, it runs only while the socket is open,
\* and no tick of it found a socket that was not open
HeartbeatInvariant ==
    /\ pingTimers <= 1
    /\ pingTimers = 1 => wsState = "open"
    /\ wsState \in {"closed", "none", "connecting"} => pingTimers = 0
    /\ lastPing # "skipped"

\* every close and every disconnect() stops the heartbeat
StoppedOnClose ==
    (wsState \in {"connecting", "open"} /\ wsState' \in {"closed", "none"}) => pingTimers' = 0

\* C27: a heartbeat ping is sent only on an open session, the heartbeat timer
\* is stopped on every close, and never is more than one heartbeat timer
\* active, across connect, close, reconnect and disconnect events.
C27_Heartbeat == []HeartbeatInvariant /\ [][StoppedOnClose]_vars

\* C27 witness: after a failed attempt and a reconnect the session is open, one
\* heartbeat timer runs and its tick sent a ping.
C27_Witness ==
    /\ wsState = "open"
    /\ openedAfterFailure
    /\ pingTimers = 1
    /\ lastPing = "sent"

\* the amount after the first rounding (validation.ts:945), before any leverage
\* clamp: the sized amount of lines 899-937 rounded down to the lot size
FirstQuantized == Quantize(SizedAmount(rel, trade, sizingBalance), lotSize)

\* C28: the balance check precedes the leverage clamp: for a relationship with
\* a leverage cap configured, if the notional of the first-quantized amount
\* (before any leverage clamp) exceeds the available balance, the relationship
\* is skipped and no order is submitted.
C28_BalanceBeforeLeverage ==
    (rel.custom_leverage # Zero /\ Submitted)
        => ~RLt(available, RMul(FirstQuantized, trade.price))

\* the replication call has passed its second balance read with an answer
BalanceChecked ==
    \/ rpc \in {"positions", "order"}
    \/ rpc = "done" /\ outcome \in {"belowLotAfterLeverage", "insufficientBalance",
                                    "exposure", "success", "failure"}

\* C29: for a balance_percent relationship the available balance is read once
\* per Fill and reused: the value used to size the order is the value used in
\* the later insufficient-balance check and leverage clamp, and at most one
\* account-snapshot request is enqueued per relationship per Fill.
C29_BalanceReadOnce ==
    (rpc # "idle" /\ rel.sizing.method = "balance_percent")
        => /\ snapshotReads <= 1
           /\ BalanceChecked => available = sizingBalance

\* the reconciliation pass of slot p ends in this step
PassEnds(p) == passes[p].phase = "query" /\ passes'[p].phase = "idle"

\* a pass that ends either failed in findAll and did nothing, or leaves the
\* SubscriptionSet equal to the masters it read and, on an open session, has
\* written subscribe for (masters \ SubscriptionSet) and unsubscribe for
\* (SubscriptionSet \ masters) and nothing else
ReconcilesExactly ==
    \A p \in PassSlots : PassEnds(p) =>
        LET masters == passes[p].masters
        IN  \/ UNCHANGED <<activeSubscriptions, sessionSubs>>
            \/ /\ activeSubscriptions' = masters
               /\ wsState = "open" =>
                     sessionSubs' = (sessionSubs \cup (masters \ activeSubscriptions))
                                        \ (activeSubscriptions \ masters)

\* a pass gets past its isConnected() check only on an open session, and the
\* SubscriptionSet and the subscriptions of an unchanged socket change only in
\* a step that ends a pass
NoPassWhenNotConnected ==
    /\ (\E p \in PassSlots : passes[p].phase = "idle" /\ passes'[p].phase = "query")
          => wsState' = "open"
    /\ activeSubscriptions' # activeSubscriptions => \E p \in PassSlots : PassEnds(p)
    /\ (sessionSubs' # sessionSubs /\ wsState' = wsState)
          => \E p \in PassSlots : PassEnds(p)

\* C30: a reconciliation pass that runs while the session is open sends
\* subscribe exactly for the wallets in (active masters \ SubscriptionSet),
\* unsubscribe exactly for the wallets in (SubscriptionSet \ active masters),
\* nothing for wallets in both, and ends with SubscriptionSet equal to the
\* distinct active master-wallet set it read; a pass that starts while not
\* connected sends nothing and leaves SubscriptionSet unchanged.
C30_ReconcileDeltas == [][ReconcilesExactly /\ NoPassWhenNotConnected]_vars

\* C30 witness: on a reopened session a pass wrote its calls and ended, the
\* SubscriptionSet is the active master set {m2}, and only m2 is subscribed on
\* the socket.
C30_Witness ==
    /\ wsState = "open"
    /\ openedAfterFailure
    /\ lastCalls = "written"
    /\ \A p \in PassSlots : passes[p] = NoPass
    /\ activeMasters = {"m2"}
    /\ activeSubscriptions = {"m2"}
    /\ sessionSubs = {"m2"}

\* an entry of the cache is never changed or removed
CacheOnlyGrows ==
    \A sym \in UpperSymbols :
        marketInfoCache[sym] # Zero => marketInfoCache'[sym] = marketInfoCache[sym]

\* an entry is added only by a lookup of the symbol that succeeds, and it is
\* the market that lookup returns
AddedByLookup ==
    \A sym \in UpperSymbols :
        (marketInfoCache[sym] = Zero /\ marketInfoCache'[sym] # Zero) =>
            \E i \in LookupSlots :
                /\ lookups[i].phase = "fetch" /\ lookups[i].sym = sym
                /\ lookups'[i].phase = "done"
                /\ lookups'[i].market = marketInfoCache'[sym]

\* a lookup that fails returns null, for which the caller takes the default lot
\* size, and adds no entry, so that the next lookup of the symbol fetches again
FailedAddsNothing ==
    \A i \in LookupSlots :
        (lookups[i].phase = "fetch" /\ lookups'[i].phase = "done"
            /\ lookups'[i].market = Zero) =>
                /\ marketInfoCache' = marketInfoCache
                /\ LotSizeOf(lookups'[i].market) = DefaultLot

\* C31: the MarketInfo cache only grows: an entry is added on the first
\* successful lookup of a symbol and is never changed or removed afterwards; a
\* failed lookup adds no entry, makes the Fill use the default lot size instead
\* of aborting, and is retried on the next Fill for that symbol.
C31_CacheOnlyGrows == [][CacheOnlyGrows /\ AddedByLookup /\ FailedAddsNothing]_vars

\* the row of relationship i matched the Fill when the relationships were loaded
MatchedAtLoad(i) ==
    /\ tableAtLoad[i].master_wallet = trader
    /\ tableAtLoad[i].is_active

\* C32: an order is submitted for a relationship in response to a Fill only if
\* that relationship's master wallet equals the Fill's wallet and the
\* relationship was active when the relationships were loaded for that Fill;
\* when no such relationship exists the Fill causes no execution-client call
\* at all.
C32_OnlyMatchingRelationships ==
    /\ \A c \in clientCalls : c.op = "createMarketOrder" => MatchedAtLoad(c.rel)
    /\ (loadPc \in {"idle", "fanout"} /\ \A i \in RelIds : ~MatchedAtLoad(i))
           => clientCalls = {}

\* C32 witness: the Fill of m1 was replicated with an order to relationship 1,
\* which has been deactivated since it was loaded, and caused no call for
\* relationship 2, which follows m2.
C32_Witness ==
    /\ loadPc = "idle"
    /\ trader = "m1"
    /\ clientCalls = {[rel |-> 1, op |-> "getAccountInfo"],
                      [rel |-> 1, op |-> "createMarketOrder"]}
    /\ copyRelationships[1] = [master_wallet |-> "m1", is_active |-> FALSE]
    /\ copyRelationships[2] = [master_wallet |-> "m2", is_active |-> TRUE]

\* createMarketOrder is called in a step that takes the call from one of its
\* reads to awaiting the order; the call then only ends, and the order is
\* neither replaced nor made again before the call has returned
OneOrderPerCall ==
    /\ (order = NoOrder /\ order' # NoOrder)
          => rpc \in {"balance2", "positions"} /\ rpc' = "order"
    /\ rpc = "order" => rpc' = "done" /\ order' = order
    /\ rpc = "done" => rpc' = "idle" /\ order' = NoOrder
    /\ (rpc' = "order" /\ rpc # "order") => order = NoOrder

\* C33: for each pair (accepted Fill, relationship) at most one market-order
\* request is enqueued on the execution client, regardless of which risk
\* checks pass and of failures in intermediate reads.
C33_AtMostOneOrder ==
    /\ [](Submitted => rpc \in {"order", "done"})
    /\ [][OneOrderPerCall]_vars

\* C33 witness: after a positions read that did not succeed the order was made,
\* the exchange refused it and the call ended with that one order.
C33_Witness ==
    /\ rpc = "done"
    /\ outcome = "failure"
    /\ Submitted
    /\ positionsResp.kind = "unsuccessful"

RECURSIVE ContentOf(_)
\* what a value holds, whatever order its keys were created in: an object is
\* the set of its keys with what each holds, an array the sequence of what its
\* elements hold
ContentOf(v) ==
    IF v.kind = "atom" THEN v
    ELSE IF v.kind = "arr" THEN Arr([i \in DOMAIN v.val |-> ContentOf(v.val[i])])
    ELSE [kind |-> "obj",
          val |-> {[key |-> v.val[i].key, value |-> ContentOf(v.val[i].value)] :
                      i \in DOMAIN v.val}]

\* the array of a message is the array of its canonical form
ArrayKept(message) ==
    \A i \in DOMAIN message.val :
        message.val[i].key = "side" =>
            LET sorted == sortKeys(message)
            IN  sorted.val[GetProp(sorted, "side")].value = message.val[i].value

\* C34: the canonical form used for signing does not depend on key insertion
\* order: two messages with the same keys and values at every nesting level,
\* differing only in the order their object keys were inserted, canonicalize to
\* the same text; array element order is preserved; and canonicalizing an
\* already canonical message changes nothing.
C34_CanonicalForm ==
    signPc = "signed" =>
        /\ (ContentOf(messageA) = ContentOf(messageB)) <=> (compactA = compactB)
        /\ ArrayKept(messageA) /\ ArrayKept(messageB)
        /\ sortKeys(sortKeys(messageA)) = sortKeys(messageA)
        /\ Compact(sortKeys(messageA)) = compactA

\* C34 witness: two messages with the keys type, data and side created in
\* opposite orders, and the keys of the nested object too, were signed as the
\* same text.
C34_Witness ==
    /\ signPc = "signed"
    /\ ObjectKeys(messageA) = <<"type", "data", "side">>
    /\ ObjectKeys(messageB) = <<"side", "data", "type">>
    /\ messageA.val[2].value # messageB.val[2].value
    /\ compactA = compactB

\* no replication is in flight: replicateTrade is not between its start and its
\* return, and every replicateToUser call it started has ended
Drained == loadPc = "idle" /\ pendingCalls = {}

\* C35: on shutdown no new Fill is accepted and in-flight work drains: every
\* replication pass that had started before the shutdown signal runs to the
\* end of its per-relationship processing (order submitted or skipped) before
\* the process exits.
C35_DrainOnShutdown ==
    /\ [](exited => Drained)
    /\ [][exited => UNCHANGED loadVars]_vars

\* a wallet enters the SubscriptionSet only in a step that writes its subscribe
\* command to the session that is open
AddedOnlyIfWritten ==
    \A w \in activeSubscriptions' \ activeSubscriptions :
        wsState = "open" /\ w \in sessionSubs'

\* C36: a master wallet is in the SubscriptionSet only if its subscribe command
\* was actually written to the session that is currently open: in particular,
\* when the session closes between a reconciliation pass's connectivity check
\* and its subscribe calls (the pass suspends on the relationship read in
\* between), the wallet is not added to the set.
C36_SubscribedMeansWritten == [][AddedOnlyIfWritten]_vars

\* C37: after disconnect() has been called, no new feed session is ever opened
\* and no heartbeat runs, including the case where disconnect() is called
\* while a reconnect backoff timer is pending.
C37_DisconnectIsFinal ==
    ~shouldReconnect => (wsState \in {"none", "closed"} /\ pingTimers = 0)

\* a request whose future is settled is neither in the queue nor with fetch
SettledLeftTheQueue == \A i \in ReqIds : future[i] \in Settled => ~InFlight(i)

\* a future is settled in the step that takes the answer of its request's
\* dispatch, which drops the request; once settled it keeps its outcome and its
\* request is not dispatched, until the identity is taken by a new request
SettledOnce ==
    \A i \in ReqIds :
        /\ (future[i] = "pending" /\ future'[i] # "pending") =>
              /\ future'[i] \in Settled
              /\ loop = "fetch" /\ current.id = i /\ current' = NoReq
        /\ (future[i] \in Settled /\ future'[i] # future[i]) =>
              /\ future'[i] = "pending"
              /\ dispatches'[i] = 0
              /\ requestQueue' = Append(requestQueue, [id |-> i, retryCount |-> 0])
        /\ (future[i] \in Settled /\ future'[i] = future[i]) =>
              dispatches'[i] = dispatches[i]

\* C38: every enqueued request's future is settled at most once and never both
\* resolved and rejected, across all dispatch outcomes (2xx, 429 then retry,
\* second 429, other non-2xx, transport error); a request whose future has been
\* settled is never dispatched again.
C38_SettledOnce == []SettledLeftTheQueue /\ [][SettledOnce]_vars

\* C38 witness: one request was resolved on its second dispatch, after a 429,
\* and another was rejected by a second 429; neither is in the queue.
C38_Witness ==
    \E i, j \in ReqIds :
        /\ future[i] = "resolved" /\ dispatches[i] = 2
        /\ future[j] = "rejected429" /\ dispatches[j] = 2
        /\ ~InFlight(i) /\ ~InFlight(j)

\* C39: reconciliation converges under interleaving: when reconciliation passes
\* triggered by the 60-unit timer, by the connected event and by relationship
\* create/update/delete overlap (each suspends on its relationship read), and
\* afterwards relationships stop changing while the session stays open, the
\* SubscriptionSet eventually equals the distinct active master-wallet set and
\* stays equal.
C39_Converges ==
    \A M \in SUBSET Wallets :
        <>[](wsState = "open" /\ activeMasters = M) => <>[](activeSubscriptions = M)

\* C39 witness: two passes overlap on an open session, the one that read the
\* older master set is still suspended, and the SubscriptionSet differs from
\* the active master set.
C39_Witness ==
    /\ wsState = "open"
    /\ passes[1].phase = "query" /\ passes[2].phase = "query"
    /\ passes[1].masters # passes[2].masters
    /\ passes[2].masters = activeMasters
    /\ activeSubscriptions # activeMasters

\* the call that made client c has ended and nothing is on the client's queue
CallFinished(c) == Made(c) /\ userClients[c].pc = "ended"

\* the dispatcher loop of client c has ended and its interval is cleared
ClientStopped(c) ==
    Made(c) /\ userClients[c].loop \notin {"check", "fetch", "sleep"}
            /\ ~userClients[c].interval

\* C40: the background work created for one replication pass ends: the
\* dispatcher loop and rate-counter tick timer of the execution client created
\* for a (Fill, relationship) pair eventually stop once that pass has finished
\* and its queue is empty, so the number of live dispatcher loops stays bounded
\* as Fills keep arriving.
C40_ClientsStop == \A c \in ClientIds : CallFinished(c) ~> ClientStopped(c)

====
